---------------------------- MODULE Spec2Model ----------------------------
(***************************************************************************)
(* Resilient concurrent dispatch layer of langextract:                     *)
(*   - is_transient_error            (langextract/retry_utils.py)          *)
(*   - retry_on_transient_errors     (langextract/retry_utils.py)          *)
(*   - retry_chunk_processing        (langextract/retry_utils.py)          *)
(*   - DashScopeLanguageModel.infer  (langextract/providers/dashscope.py)  *)
(*                                                                         *)
(* Strings are sequences of one-character strings so that lower-casing,    *)
(* concatenation and substring search are computed, not assumed.           *)
(* Delays are integers in milliseconds.                                    *)
(***************************************************************************)
EXTENDS Integers, Sequences, FiniteSets, TLC

VARIABLES
    rcfg,   \* arguments of the retry decorator applied to func
    rc,     \* rc[c]: the locals of wrapper call c and what it did so far
    model,  \* the language model instance: its provider class and max_workers
    dsp,    \* dsp[d]: the generator created by infer call d, its pool, its caller
    tables, \* the module-level lists TRANSIENT_ERROR_PATTERNS and TRANSIENT_EXCEPTION_TYPES
    clf,    \* an error held by some caller and the verdicts is_transient_error gave on it
    fn      \* a function object and the retry decorators applied to it so far

vars ==
    <<rcfg, rc, model, dsp, tables, clf, fn>>

-----------------------------------------------------------------------------
(* Bounds of the model *)

MaxRetriesBound ==
    2

JitterSteps ==
    2

MaxBatch ==
    3

MaxWorkersBound ==
    3

MaxLayers ==
    3

\* largest batch of the infer calls whose termination is checked
MaxLiveBatch ==
    2

MaxClassifyCalls ==
    2

Calls ==
    {1, 2}

Dispatches ==
    {1, 2}

-----------------------------------------------------------------------------
(* Strings *)

TRANSIENT_ERROR_PATTERNS ==
    <<
      << "5", "0", "3" >>,
      << "s", "e", "r", "v", "i", "c", "e", " ", "u", "n", "a", "v", "a",
        "i", "l", "a", "b", "l", "e" >>,
      << "t", "e", "m", "p", "o", "r", "a", "r", "i", "l", "y", " ", "u",
        "n", "a", "v", "a", "i", "l", "a", "b", "l", "e" >>,
      << "r", "a", "t", "e", " ", "l", "i", "m", "i", "t" >>,
      << "4", "2", "9" >>,
      << "t", "o", "o", " ", "m", "a", "n", "y", " ", "r", "e", "q", "u",
        "e", "s", "t", "s" >>,
      << "c", "o", "n", "n", "e", "c", "t", "i", "o", "n", " ", "r", "e",
        "s", "e", "t" >>,
      << "t", "i", "m", "e", "o", "u", "t" >>,
      << "t", "i", "m", "e", "d", " ", "o", "u", "t" >>,
      << "d", "e", "a", "d", "l", "i", "n", "e", " ", "e", "x", "c", "e",
        "e", "d", "e", "d" >>,
      << "m", "o", "d", "e", "l", " ", "i", "s", " ", "o", "v", "e", "r",
        "l", "o", "a", "d", "e", "d" >>,
      << "q", "u", "o", "t", "a", " ", "e", "x", "c", "e", "e", "d", "e",
        "d" >>,
      << "r", "e", "s", "o", "u", "r", "c", "e", " ", "e", "x", "h", "a",
        "u", "s", "t", "e", "d" >>,
      << "i", "n", "t", "e", "r", "n", "a", "l", " ", "s", "e", "r", "v",
        "e", "r", " ", "e", "r", "r", "o", "r" >>,
      << "5", "0", "2" >>,
      << "5", "0", "4" >>,
      << "g", "a", "t", "e", "w", "a", "y", " ", "t", "i", "m", "e", "o",
        "u", "t" >>,
      << "b", "a", "d", " ", "g", "a", "t", "e", "w", "a", "y" >>
    >>

TRANSIENT_EXCEPTION_TYPES ==
    << "ServiceUnavailable", "RateLimitError", "Timeout", "ConnectionError",
       "TimeoutError", "OSError", "RuntimeError" >>

\* "503 The model is overloaded"
MsgOverloaded ==
    << "5", "0", "3", " ", "T", "h", "e", " ", "m", "o", "d", "e", "l", " ",
      "i", "s", " ", "o", "v", "e", "r", "l", "o", "a", "d", "e", "d" >>

\* "Invalid API key"
MsgInvalidKey ==
    << "I", "n", "v", "a", "l", "i", "d", " ", "A", "P", "I", " ", "k", "e",
      "y" >>

\* "boom"
MsgBoom ==
    << "b", "o", "o", "m" >>

\* "429 Too Many Requests"
MsgTooMany ==
    << "4", "2", "9", " ", "T", "o", "o", " ", "M", "a", "n", "y", " ", "R",
      "e", "q", "u", "e", "s", "t", "s" >>

\* "llama.cpp API error: "
LlamaCppPrefix ==
    << "l", "l", "a", "m", "a", ".", "c", "p", "p", " ", "A", "P", "I", " ",
      "e", "r", "r", "o", "r", ":", " " >>

\* "DashScope API error: "
DashScopePrefix ==
    << "D", "a", "s", "h", "S", "c", "o", "p", "e", " ", "A", "P", "I", " ",
      "e", "r", "r", "o", "r", ":", " " >>

\* "Parallel inference error: "
ParallelPrefix ==
    << "P", "a", "r", "a", "l", "l", "e", "l", " ", "i", "n", "f", "e", "r",
      "e", "n", "c", "e", " ", "e", "r", "r", "o", "r", ":", " " >>

\* "Failed to process one or more prompts"
MsgFailedPrompts ==
    << "F", "a", "i", "l", "e", "d", " ", "t", "o", " ", "p", "r", "o", "c",
      "e", "s", "s", " ", "o", "n", "e", " ", "o", "r", " ", "m", "o", "r",
      "e", " ", "p", "r", "o", "m", "p", "t", "s" >>

\* "Retry logic failed unexpectedly"
MsgRetryLogic ==
    << "R", "e", "t", "r", "y", " ", "l", "o", "g", "i", "c", " ", "f", "a",
      "i", "l", "e", "d", " ", "u", "n", "e", "x", "p", "e", "c", "t", "e",
      "d", "l", "y" >>

\* "Chunk retry logic failed unexpectedly"
MsgChunkRetryLogic ==
    << "C", "h", "u", "n", "k", " ", "r", "e", "t", "r", "y", " ", "l", "o",
      "g", "i", "c", " ", "f", "a", "i", "l", "e", "d", " ", "u", "n", "e",
      "x", "p", "e", "c", "t", "e", "d", "l", "y" >>

\* str.lower() on the letters that occur
UpperToLower ==
    ("A" :> "a") @@ ("B" :> "b") @@ ("C" :> "c") @@ ("D" :> "d") @@ ("E" :> "e") @@
    ("F" :> "f") @@ ("G" :> "g") @@ ("H" :> "h") @@ ("I" :> "i") @@ ("J" :> "j") @@
    ("K" :> "k") @@ ("L" :> "l") @@ ("M" :> "m") @@ ("N" :> "n") @@ ("O" :> "o") @@
    ("P" :> "p") @@ ("Q" :> "q") @@ ("R" :> "r") @@ ("S" :> "s") @@ ("T" :> "t") @@
    ("U" :> "u") @@ ("V" :> "v") @@ ("W" :> "w") @@ ("X" :> "x") @@ ("Y" :> "y") @@
    ("Z" :> "z")

Min(a, b) ==
    IF a <= b THEN a ELSE b

Lower(s) ==
    [k \in 1..Len(s) |->
        IF s[k] \in DOMAIN UpperToLower THEN UpperToLower[s[k]] ELSE s[k]]

\* Python's `pattern in error_str`
Contains(pattern, s) ==
    \E k \in 0..(Len(s) - Len(pattern)) :
        \A j \in 1..Len(pattern) : s[k + j] = pattern[j]

-----------------------------------------------------------------------------
(* Errors.  An exception object is its type name, its message and the      *)
(* identity of the raise that created it.                                   *)

NoException ==
    [type |-> "None", msg |-> <<>>, origin |-> "", id |-> 0]

\* origin and id tell the raise that created the object
Exc(type, msg, origin, id) ==
    [type |-> type, msg |-> msg, origin |-> origin, id |-> id]

\* str(error)
Str(error) ==
    error.msg

\* type(error).__name__
TypeName(error) ==
    error.type

\* the two module-level lists as the module's import leaves them
InitialTables ==
    [patterns |-> TRANSIENT_ERROR_PATTERNS, types |-> TRANSIENT_EXCEPTION_TYPES]

\* bug: the patterns are searched in the message as it is written
is_transient_error_no_lower(error) ==
    LET error_str == Str(error)
        error_type == TypeName(error)
        is_transient_pattern ==
            \E k \in 1..Len(tables.patterns) :
                Contains(tables.patterns[k], error_str)
        is_transient_type ==
            \E k \in 1..Len(tables.types) : error_type = tables.types[k]
    IN  is_transient_pattern \/ is_transient_type

\* bug: the type of the error is not looked at
is_transient_error_pattern_only(error) ==
    LET error_str == Lower(Str(error))
    IN  \E k \in 1..Len(tables.patterns) :
            Contains(tables.patterns[k], error_str)

is_transient_error(error) ==
    LET error_str == Lower(Str(error))
        error_type == TypeName(error)
        is_transient_pattern ==
            \E k \in 1..Len(tables.patterns) :
                Contains(tables.patterns[k], error_str)
        is_transient_type ==
            \E k \in 1..Len(tables.types) : error_type = tables.types[k]
    IN  is_transient_pattern \/ is_transient_type

-----------------------------------------------------------------------------
(* Calls of is_transient_error by a caller that holds an error *)

\* messages of the errors handed to is_transient_error: those of the tests in
\* several capitalisations, near misses, and every listed pattern itself
ClassifyMessages ==
    {
      << "5", "0", "3", " ", "T", "h", "e", " ", "m", "o", "d", "e", "l",
        " ", "i", "s", " ", "o", "v", "e", "r", "l", "o", "a", "d", "e", "d" >>,
      << "S", "e", "r", "v", "i", "c", "e", " ", "t", "e", "m", "p", "o",
        "r", "a", "r", "i", "l", "y", " ", "u", "n", "a", "v", "a", "i",
        "l", "a", "b", "l", "e" >>,
      << "4", "2", "9", " ", "T", "o", "o", " ", "M", "a", "n", "y", " ",
        "R", "e", "q", "u", "e", "s", "t", "s" >>,
      << "R", "a", "t", "e", " ", "l", "i", "m", "i", "t", " ", "e", "x",
        "c", "e", "e", "d", "e", "d" >>,
      << "R", "e", "q", "u", "e", "s", "t", " ", "t", "i", "m", "e", "d",
        " ", "o", "u", "t" >>,
      << "C", "o", "n", "n", "e", "c", "t", "i", "o", "n", " ", "t", "i",
        "m", "e", "o", "u", "t" >>,
      << "C", "O", "N", "N", "E", "C", "T", "I", "O", "N", " ", "T", "I",
        "M", "E", "O", "U", "T" >>,
      << "c", "o", "n", "n", "e", "c", "t", "i", "o", "n", " ", "t", "i",
        "m", "e", "o", "u", "t" >>,
      << "I", "n", "v", "a", "l", "i", "d", " ", "A", "P", "I", " ", "k",
        "e", "y" >>,
      << "I", "N", "V", "A", "L", "I", "D", " ", "A", "P", "I", " ", "K",
        "E", "Y" >>,
      << "i", "n", "v", "a", "l", "i", "d", " ", "a", "p", "i", " ", "k",
        "e", "y" >>,
      << "I", "n", "v", "a", "l", "i", "d", " ", "m", "o", "d", "e", "l",
        " ", "I", "D" >>,
      << "A", "u", "t", "h", "e", "n", "t", "i", "c", "a", "t", "i", "o",
        "n", " ", "f", "a", "i", "l", "e", "d" >>,
      << "5", "0", "3", " ", "S", "e", "r", "v", "i", "c", "e", " ", "U",
        "n", "a", "v", "a", "i", "l", "a", "b", "l", "e" >>,
      << "T", "h", "e", " ", "m", "o", "d", "e", "l", " ", "i", "s", " ",
        "o", "v", "e", "r", "l", "o", "a", "d", "e", "d" >>,
      << "T", "H", "E", " ", "M", "O", "D", "E", "L", " ", "I", "S", " ",
        "O", "V", "E", "R", "L", "O", "A", "D", "E", "D" >>,
      << "T", "o", "o", " ", "m", "a", "n", "y", " ", "r", "e", "q", "u",
        "e", "s", "t", "s" >>,
      << "T", "i", "m", "e", "o", "u", "t" >>,
      << "D", "e", "a", "d", "l", "i", "n", "e", " ", "e", "x", "c", "e",
        "e", "d", "e", "d" >>,
      << "I", "n", "v", "a", "l", "i", "d", " ", "t", "i", "m", "e", "o",
        "u", "t", " ", "s", "e", "t", "t", "i", "n", "g" >>,
      << "T", "i", "m", "e", " ", "o", "u", "t" >>,
      << "5", "0", " ", "3" >>,
      << "b", "o", "o", "m" >>,
      <<>>
    } \cup {TRANSIENT_ERROR_PATTERNS[k] : k \in 1..Len(TRANSIENT_ERROR_PATTERNS)}

\* type names of the errors handed to is_transient_error: the listed ones,
\* langextract's own, and subclasses of listed types with another name
ClassifyTypes ==
    {TRANSIENT_EXCEPTION_TYPES[k] : k \in 1..Len(TRANSIENT_EXCEPTION_TYPES)}
    \cup {"InferenceRuntimeError", "InferenceConfigError", "ConnectionResetError",
          "APITimeoutError", "ValueError"}

ClassifyErrors ==
    {Exc(t, m, "caller", 1) : t \in ClassifyTypes, m \in ClassifyMessages}

NoClassification ==
    [error |-> NoException, results |-> <<>>]

\* bug: a type that was classified is remembered in the list of types
Classify_learns ==
    /\ Len(clf.results) < MaxClassifyCalls
    /\ clf' = [clf EXCEPT !.results = Append(@, is_transient_error(clf.error))]
    /\ tables' = [tables EXCEPT !.types = Append(@, TypeName(clf.error))]
    /\ UNCHANGED <<rcfg, rc, model, dsp, fn>>

\* one more call is_transient_error(error) on the error the caller holds
Classify ==
    /\ Len(clf.results) < MaxClassifyCalls
    /\ clf' = [clf EXCEPT !.results = Append(@, is_transient_error(clf.error))]
    /\ UNCHANGED <<rcfg, rc, model, dsp, tables, fn>>

-----------------------------------------------------------------------------
(* The function wrapped by a retry decorator.  Each invocation either      *)
(* returns a value or raises one of these errors; the choice is free.      *)

FuncErrors ==
    { [type |-> "InferenceRuntimeError", msg |-> MsgOverloaded],
      [type |-> "RuntimeError",          msg |-> MsgBoom],
      [type |-> "InferenceConfigError",  msg |-> MsgInvalidKey] }

\* the n-th invocation returned: its value is tagged with n
Returned(n) ==
    [ok |-> TRUE, val |-> n, exc |-> NoException]

\* the n-th invocation raised err: a fresh exception object
Raised(err, n) ==
    [ok |-> FALSE, val |-> 0, exc |-> Exc(err.type, err.msg, "func", n)]

FuncOutcomes(n) ==
    {Returned(n)} \cup {Raised(err, n) : err \in FuncErrors}

-----------------------------------------------------------------------------
(* Retry decorators *)

InitialDelays ==
    {100, 400}

BackoffFactors ==
    {1, 2}

MaxDelays ==
    {200}

RetryConfigs ==
    [variant : {"general"}, enabled : {TRUE}, jitter : BOOLEAN,
     max_retries : -1..MaxRetriesBound, initial_delay : InitialDelays,
     backoff_factor : BackoffFactors, max_delay : MaxDelays]
    \cup
    [variant : {"chunk"}, enabled : BOOLEAN, jitter : {TRUE},
     max_retries : -1..MaxRetriesBound, initial_delay : InitialDelays,
     backoff_factor : BackoffFactors, max_delay : MaxDelays]

NoResult ==
    [kind |-> "none", val |-> 0, exc |-> NoException]

ReturnOf(v) ==
    [kind |-> "return", val |-> v, exc |-> NoException]

RaiseOf(e) ==
    [kind |-> "raise", val |-> 0, exc |-> e]

IdleCall ==
    [pc |-> "idle", attempt |-> 0, delay |-> 0, last_exception |-> NoException,
     outs |-> <<>>, sleeps |-> <<>>, result |-> NoResult]

\* number of invocations of func made by wrapper call c
Invocations(c) ==
    Len(rc[c].outs)

\* bug: range(max_retries)
InRange_short(attempt, max_retries) ==
    attempt < max_retries

\* for attempt in range(max_retries + 1): is there an iteration `attempt`?
InRange(attempt, max_retries) ==
    attempt < max_retries + 1

\* bug: if attempt > max_retries
RetriesExhausted_late(attempt, max_retries) ==
    attempt > max_retries

\* bug: the last retry is never made
RetriesExhausted_early(attempt, max_retries) ==
    attempt + 1 >= max_retries

\* if attempt >= max_retries
RetriesExhausted(attempt, max_retries) ==
    attempt >= max_retries

\* bug: the delay is slept as it is, max_delay is not applied
CappedDelay_uncapped(delay, max_delay) ==
    delay

\* current_delay = min(delay, max_delay)
CappedDelay(delay, max_delay) ==
    Min(delay, max_delay)

\* bug: the jitter is up to the whole delay, not a tenth of it
JitterAmount_full(current_delay, r) ==
    (current_delay * r) \div JitterSteps

\* jitter_amount = current_delay * 0.1 * random.random(), random() = r / JitterSteps
JitterAmount(current_delay, r) ==
    (current_delay * r) \div (10 * JitterSteps)

\* bug: the delay is divided by the factor
NextDelay_shrinks(delay, backoff_factor, max_delay) ==
    Min(delay \div backoff_factor, max_delay)

\* delay = min(delay * backoff_factor, max_delay)
NextDelay(delay, backoff_factor, max_delay) ==
    Min(delay * backoff_factor, max_delay)

\* bug: every error is re-raised at once
GeneralOnError_gives_up(e, attempt, max_retries) ==
    "raise"

\* the except clause of retry_on_transient_errors: re-raise, or sleep and retry
GeneralOnError(e, attempt, max_retries) ==
    IF ~is_transient_error(e) THEN "raise"
    ELSE IF RetriesExhausted(attempt, max_retries) THEN "raise"
    ELSE "sleep"

\* bug: the error is not classified before retrying
ChunkOnError_retries_all(e, attempt, max_retries) ==
    IF RetriesExhausted(attempt, max_retries) THEN "raise" ELSE "sleep"

\* the except clause of retry_chunk_processing: re-raise, or sleep and retry
ChunkOnError(e, attempt, max_retries) ==
    IF ~is_transient_error(e) THEN "raise"
    ELSE IF RetriesExhausted(attempt, max_retries) THEN "raise"
    ELSE "sleep"

\* bug: the enabled flag is ignored
RetryDisabled_never(cfg) ==
    FALSE

\* if not enabled
RetryDisabled(cfg) ==
    ~cfg.enabled

\* the locals of a wrapper call of retry_on_transient_errors before its loop
GeneralLocals(cfg) ==
    [IdleCall EXCEPT
        !.delay = cfg.initial_delay,
        !.pc = IF InRange(0, cfg.max_retries) THEN "try" ELSE "post_loop"]

\* wrapper call c of retry_on_transient_errors starts
GeneralCall(c) ==
    /\ rcfg.variant = "general"
    /\ rc[c].pc = "idle"
    /\ rc' = [rc EXCEPT ![c] = GeneralLocals(rcfg)]
    /\ UNCHANGED <<rcfg, model, dsp, tables, clf, fn>>

\* one iteration of the loop of retry_on_transient_errors in a call whose
\* locals are call, when func has outcome o and random.random() gives
\* r / JitterSteps: up to the return, the re-raise or the start of time.sleep
GeneralIteration(cfg, call, o, r) ==
    LET called == [call EXCEPT !.outs = Append(@, o)]
        current_delay == CappedDelay(call.delay, cfg.max_delay)
        slept == IF cfg.jitter
                 THEN current_delay + JitterAmount(current_delay, r)
                 ELSE current_delay
    IN  IF o.ok
        THEN [called EXCEPT !.pc = "returned", !.result = ReturnOf(o.val)]
        ELSE IF GeneralOnError(o.exc, call.attempt, cfg.max_retries) = "raise"
        THEN [called EXCEPT !.pc = "raised", !.last_exception = o.exc,
                            !.result = RaiseOf(o.exc)]
        ELSE [called EXCEPT !.pc = "sleeping", !.last_exception = o.exc,
                            !.sleeps = Append(@, slept)]

GeneralInvoke(c) ==
    /\ rcfg.variant = "general"
    /\ rc[c].pc = "try"
    /\ \E o \in FuncOutcomes(Invocations(c) + 1), r \in 0..(JitterSteps - 1) :
        rc' = [rc EXCEPT ![c] = GeneralIteration(rcfg, rc[c], o, r)]
    /\ UNCHANGED <<rcfg, model, dsp, tables, clf, fn>>

\* time.sleep returns in retry_on_transient_errors: the delay is advanced and
\* the loop goes to its next iteration
GeneralAfterSleep(cfg, call) ==
    [call EXCEPT
        !.delay = NextDelay(call.delay, cfg.backoff_factor, cfg.max_delay),
        !.attempt = call.attempt + 1,
        !.pc = IF InRange(call.attempt + 1, cfg.max_retries)
               THEN "try" ELSE "post_loop"]

\* bug: attempt and current_delay are kept in one place for all the calls of
\* the decorated function
GeneralWake_shared(c) ==
    /\ rcfg.variant = "general"
    /\ rc[c].pc = "sleeping"
    /\ LET after == GeneralAfterSleep(rcfg, rc[c])
       IN rc' = [k \in Calls |->
                   IF k = c THEN after
                   ELSE IF rc[k].pc \in {"try", "sleeping"}
                   THEN [rc[k] EXCEPT !.attempt = after.attempt, !.delay = after.delay]
                   ELSE rc[k]]
    /\ UNCHANGED <<rcfg, model, dsp, tables, clf, fn>>

\* time.sleep(delay) returns in call c; current_delay is advanced
GeneralWake(c) ==
    /\ rcfg.variant = "general"
    /\ rc[c].pc = "sleeping"
    /\ rc' = [rc EXCEPT ![c] = GeneralAfterSleep(rcfg, rc[c])]
    /\ UNCHANGED <<rcfg, model, dsp, tables, clf, fn>>

\* the statements after the loop of retry_on_transient_errors
GeneralPostLoop(c) ==
    /\ rcfg.variant = "general"
    /\ rc[c].pc = "post_loop"
    /\ rc' = [rc EXCEPT ![c] =
                [@ EXCEPT
                    !.pc = "raised",
                    !.result = IF rc[c].last_exception # NoException
                               THEN RaiseOf(rc[c].last_exception)
                               ELSE RaiseOf(Exc("RuntimeError", MsgRetryLogic, "wrapper", 0))]]
    /\ UNCHANGED <<rcfg, model, dsp, tables, clf, fn>>

\* the enabled test and the locals of a wrapper call of retry_chunk_processing
ChunkLocals(cfg) ==
    IF RetryDisabled(cfg)
    THEN [IdleCall EXCEPT !.pc = "direct"]
    ELSE [IdleCall EXCEPT
            !.delay = cfg.initial_delay,
            !.pc = IF InRange(0, cfg.max_retries) THEN "try" ELSE "post_loop"]

\* wrapper call c of retry_chunk_processing starts
ChunkCall(c) ==
    /\ rcfg.variant = "chunk"
    /\ rc[c].pc = "idle"
    /\ rc' = [rc EXCEPT ![c] = ChunkLocals(rcfg)]
    /\ UNCHANGED <<rcfg, model, dsp, tables, clf, fn>>

\* return func(*args, **kwargs) with outcome o of func: the value is
\* returned, an exception propagates as it is
ChunkDirectReturn(call, o) ==
    [call EXCEPT
        !.outs = Append(@, o),
        !.pc = IF o.ok THEN "returned" ELSE "raised",
        !.result = IF o.ok THEN ReturnOf(o.val) ELSE RaiseOf(o.exc)]

\* retry disabled: return func(*args, **kwargs)
ChunkDirect(c) ==
    /\ rcfg.variant = "chunk"
    /\ rc[c].pc = "direct"
    /\ \E o \in FuncOutcomes(Invocations(c) + 1) :
        rc' = [rc EXCEPT ![c] = ChunkDirectReturn(rc[c], o)]
    /\ UNCHANGED <<rcfg, model, dsp, tables, clf, fn>>

\* one iteration of the loop of retry_chunk_processing (jitter is always
\* added, there is no jitter parameter)
ChunkIteration(cfg, call, o, r) ==
    LET called == [call EXCEPT !.outs = Append(@, o)]
        current_delay == CappedDelay(call.delay, cfg.max_delay)
        slept == current_delay + JitterAmount(current_delay, r)
    IN  IF o.ok
        THEN [called EXCEPT !.pc = "returned", !.result = ReturnOf(o.val)]
        ELSE IF ChunkOnError(o.exc, call.attempt, cfg.max_retries) = "raise"
        THEN [called EXCEPT !.pc = "raised", !.last_exception = o.exc,
                            !.result = RaiseOf(o.exc)]
        ELSE [called EXCEPT !.pc = "sleeping", !.last_exception = o.exc,
                            !.sleeps = Append(@, slept)]

ChunkInvoke(c) ==
    /\ rcfg.variant = "chunk"
    /\ rc[c].pc = "try"
    /\ \E o \in FuncOutcomes(Invocations(c) + 1), r \in 0..(JitterSteps - 1) :
        rc' = [rc EXCEPT ![c] = ChunkIteration(rcfg, rc[c], o, r)]
    /\ UNCHANGED <<rcfg, model, dsp, tables, clf, fn>>

\* time.sleep returns in retry_chunk_processing
ChunkAfterSleep(cfg, call) ==
    [call EXCEPT
        !.delay = NextDelay(call.delay, cfg.backoff_factor, cfg.max_delay),
        !.attempt = call.attempt + 1,
        !.pc = IF InRange(call.attempt + 1, cfg.max_retries)
               THEN "try" ELSE "post_loop"]

ChunkWake(c) ==
    /\ rcfg.variant = "chunk"
    /\ rc[c].pc = "sleeping"
    /\ rc' = [rc EXCEPT ![c] = ChunkAfterSleep(rcfg, rc[c])]
    /\ UNCHANGED <<rcfg, model, dsp, tables, clf, fn>>

\* the statements after the loop of retry_chunk_processing
ChunkPostLoop(c) ==
    /\ rcfg.variant = "chunk"
    /\ rc[c].pc = "post_loop"
    /\ rc' = [rc EXCEPT ![c] =
                [@ EXCEPT
                    !.pc = "raised",
                    !.result = IF rc[c].last_exception # NoException
                               THEN RaiseOf(rc[c].last_exception)
                               ELSE RaiseOf(Exc("RuntimeError", MsgChunkRetryLogic, "wrapper", 0))]]
    /\ UNCHANGED <<rcfg, model, dsp, tables, clf, fn>>

\* __doc__ of a function without a docstring
NoDoc ==
    <<>>

\* a function defined with def, no decorator applied: layers lists the
\* decorators applied so far, innermost first, func is the undecorated function
PlainFunction(name, doc) ==
    [name |-> name, doc |-> doc, layers |-> <<>>,
     func |-> [name |-> name, doc |-> doc]]

\* `def wrapper(*args, **kwargs)` inside decorator(func), before
\* functools.wraps acts on it
NewWrapper(func) ==
    [name |-> "wrapper", doc |-> NoDoc, layers |-> func.layers, func |-> func.func]

\* bug: the decorator returns the wrapper as def made it
Wraps_nothing(wrapper, wrapped) ==
    wrapper

\* functools.wraps(func)(wrapper): __name__ and __doc__ are copied from func
Wraps(wrapper, wrapped) ==
    [wrapper EXCEPT !.name = wrapped.name, !.doc = wrapped.doc]

\* fn = retry_on_transient_errors(...)(fn)
DecorateGeneral ==
    /\ Len(fn.layers) < MaxLayers
    /\ fn' = [Wraps(NewWrapper(fn), fn) EXCEPT !.layers = Append(@, "general")]
    /\ UNCHANGED <<rcfg, rc, model, dsp, tables, clf>>

\* fn = retry_chunk_processing(...)(fn)
DecorateChunk ==
    /\ Len(fn.layers) < MaxLayers
    /\ fn' = [Wraps(NewWrapper(fn), fn) EXCEPT !.layers = Append(@, "chunk")]
    /\ UNCHANGED <<rcfg, rc, model, dsp, tables, clf>>

\* the arguments retry_chunk_processing takes from a configuration of
\* retry_on_transient_errors: it has no jitter parameter, enabled is True
ChunkTwin(cfg) ==
    [cfg EXCEPT !.variant = "chunk", !.enabled = TRUE, !.jitter = TRUE]

\* the same function is decorated once with retry_on_transient_errors (call 1)
\* and once with retry_chunk_processing (call 2); both wrappers are called
PairCall ==
    /\ rc[1].pc = "idle"
    /\ rc[2].pc = "idle"
    /\ rc' = [rc EXCEPT ![1] = GeneralLocals(rcfg), ![2] = ChunkLocals(ChunkTwin(rcfg))]
    /\ UNCHANGED <<rcfg, model, dsp, tables, clf, fn>>

\* the next invocation of func has the same outcome in both calls, and
\* random.random() gives the same number in both
PairInvoke ==
    /\ rc[1].pc = "try" \/ rc[2].pc = "try"
    /\ \E o \in FuncOutcomes(Min(Invocations(1), Invocations(2)) + 1),
          r \in 0..(JitterSteps - 1) :
        rc' = [rc EXCEPT
                ![1] = IF rc[1].pc = "try"
                       THEN GeneralIteration(rcfg, rc[1], o, r) ELSE @,
                ![2] = IF rc[2].pc = "try"
                       THEN ChunkIteration(ChunkTwin(rcfg), rc[2], o, r) ELSE @]
    /\ UNCHANGED <<rcfg, model, dsp, tables, clf, fn>>

\* time.sleep returns in both calls
PairWake ==
    /\ rc[1].pc = "sleeping" \/ rc[2].pc = "sleeping"
    /\ rc' = [rc EXCEPT
                ![1] = IF rc[1].pc = "sleeping" THEN GeneralAfterSleep(rcfg, rc[1]) ELSE @,
                ![2] = IF rc[2].pc = "sleeping"
                       THEN ChunkAfterSleep(ChunkTwin(rcfg), rc[2]) ELSE @]
    /\ UNCHANGED <<rcfg, model, dsp, tables, clf, fn>>

-----------------------------------------------------------------------------
(* DashScopeLanguageModel.infer *)

\* the prompts of a batch of n prompts: distinct texts, in input order
PromptNames ==
    <<"a", "b", "c", "d", "e">>

Batch(n) ==
    SubSeq(PromptNames, 1, n)

PromptsOf(n) ==
    {Batch(n)[i] : i \in 1..n}

\* errors of the backend call self._client.chat.completions.create
ErrRateLimit ==
    [type |-> "RateLimitError", msg |-> MsgTooMany]

ErrAuth ==
    [type |-> "AuthenticationError", msg |-> MsgInvalidKey]

\* what the backend does for one prompt: the errors it raises on its first
\* calls, in order, after which it answers (infer calls the backend once per
\* prompt, so one error is as far as a plan is ever read)
UnitPlans ==
    { <<>>, <<ErrRateLimit>>, <<ErrAuth>> }

NoneResult ==
    [score |-> 0, output |-> <<>>]

\* core_types.ScoredOutput(score=1.0, output=output_text)
ScoredOutput(prompt) ==
    [score |-> 1, output |-> <<"response to", prompt>>]

\* the prefix _process_single_prompt of the model's class puts before str(e)
ApiErrorPrefix ==
    IF model.provider = "llama_cpp" THEN LlamaCppPrefix ELSE DashScopePrefix

\* _process_single_prompt(prompt, config): the j-th backend call for this prompt
ProcessSinglePrompt(prompt, plan, j) ==
    IF j <= Len(plan)
    THEN [ok |-> FALSE, val |-> NoneResult,
          exc |-> Exc("InferenceRuntimeError", ApiErrorPrefix \o Str(plan[j]),
                      prompt, j)]
    ELSE [ok |-> TRUE, val |-> ScoredOutput(prompt), exc |-> NoException]

\* the keys of merged_kwargs that are modelled: infer forwards the first two
\* to config; max_workers stands for the keys it does not forward
KwargKeys ==
    {"temperature", "top_p", "max_workers"}

ConfigKeys ==
    {"temperature", "top_p"}

\* a key that is not in a dict
Absent ==
    "absent"

\* values of keyword arguments, as written by the caller
ConfigValues ==
    {"0.2", "0.7"}

\* the dicts over a set of keys
Dicts(keys) ==
    [keys -> ConfigValues \cup {Absent}]

NoKwargs ==
    [k \in KwargKeys |-> Absent]

\* self.temperature, None unless the constructor was given one
SelfTemperature ==
    Absent

\* the config dict infer builds from merged_kwargs
BuildConfig(merged_kwargs) ==
    [k \in ConfigKeys |->
        IF k = "temperature"
        THEN IF merged_kwargs[k] # Absent THEN merged_kwargs[k] ELSE SelfTemperature
        ELSE merged_kwargs[k]]

\* bug: the task is handed infer's own dict
ConfigCopy_alias(heap, ref) ==
    [heap |-> heap, ref |-> ref]

\* config.copy(): a new dict object with the same keys and values; heap lists
\* the dict objects of the call, a reference is an index into it
ConfigCopy(heap, ref) ==
    [heap |-> Append(heap, heap[ref]), ref |-> Len(heap) + 1]

NoFuture ==
    [state |-> "NONE", prompt |-> "", config |-> 0, ok |-> FALSE, val |-> NoneResult,
     exc |-> NoException]

UnusedDispatch ==
    [pc |-> "unused", n |-> 0, batch |-> <<>>, plan |-> [p \in {} |-> <<>>], want |-> FALSE, requested |-> 0,
     received |-> <<>>, error |-> NoException, pending |-> NoException,
     pool |-> [state |-> "none", size |-> 0], queue |-> <<>>, worker |-> <<>>,
     fut |-> <<>>, future_to_index |-> <<>>, results |-> <<>>,
     completed |-> <<>>, ac_finished |-> {}, collected |-> {},
     k |-> 0, inv |-> [p \in {} |-> 0],
     kwargs |-> NoKwargs, heap |-> <<>>, config |-> 0, task_config |-> 0, given |-> <<>>]

\* workers of the pool of call d that are running a task
BusyWorkers(d) ==
    {w \in 1..dsp[d].pool.size : dsp[d].worker[w] # 0}

\* model.infer(batch_prompts, **kwargs) with a batch whose length is in sizes
\* and merged keyword arguments in kws: the generator object is created, its
\* body has not run
InferCallWith(d, sizes, kws) ==
    /\ dsp[d].pc = "unused"
    /\ \E n \in sizes, kw \in kws :
        \E plan \in [PromptsOf(n) -> UnitPlans] :
            dsp' = [dsp EXCEPT ![d] =
                [UnusedDispatch EXCEPT
                    !.pc = "created", !.n = n, !.batch = Batch(n),
                    !.plan = plan, !.kwargs = kw,
                    !.inv = [p \in PromptsOf(n) |-> 0]]]
    /\ UNCHANGED <<rcfg, rc, model, tables, clf, fn>>

\* the backend fails once for the prompts in failing and answers the others
PlanFailing(batch, failing) ==
    [p \in {batch[i] : i \in 1..Len(batch)} |->
        IF p \in failing THEN <<ErrRateLimit>> ELSE <<>>]

\* model.infer(batch) with the given batch, the backend failing for the
\* prompts of one of the sets in failures
InferCallBatch(d, batch, failures) ==
    /\ dsp[d].pc = "unused"
    /\ \E failing \in failures :
        dsp' = [dsp EXCEPT ![d] =
            [UnusedDispatch EXCEPT
                !.pc = "created", !.n = Len(batch), !.batch = batch,
                !.plan = PlanFailing(batch, failing),
                !.inv = [p \in {batch[i] : i \in 1..Len(batch)} |-> 0]]]
    /\ UNCHANGED <<rcfg, rc, model, tables, clf, fn>>

\* model.infer(batch_prompts) with a batch whose length is in sizes
InferCallOf(d, sizes) ==
    InferCallWith(d, sizes, {NoKwargs})

\* model.infer(batch_prompts) with a batch of any length up to MaxBatch
InferCall(d) ==
    InferCallOf(d, 0..MaxBatch)

\* the caller asks the generator for its next item
CallerNext(d) ==
    /\ dsp[d].pc \notin {"unused", "done", "raised"}
    /\ ~dsp[d].want
    /\ dsp' = [dsp EXCEPT ![d].want = TRUE, ![d].requested = @ + 1]
    /\ UNCHANGED <<rcfg, rc, model, tables, clf, fn>>

\* bug: max_workers is not looked at
UsesParallelPath_any_workers(n, max_workers) ==
    n > 1

\* if len(batch_prompts) > 1 and self.max_workers > 1
UsesParallelPath(n, max_workers) ==
    n > 1 /\ max_workers > 1

\* bug: one worker per prompt
PoolSize_batch(n, max_workers) ==
    n

\* ThreadPoolExecutor(max_workers=min(self.max_workers, len(batch_prompts)))
PoolSize(n, max_workers) ==
    Min(max_workers, n)

\* bug: LlamaCppLanguageModel.infer fans out over max_workers as
\* DashScopeLanguageModel.infer does
InferPath_all_providers(provider, n, max_workers) ==
    IF UsesParallelPath(n, max_workers) THEN "parallel" ELSE "sequential"

\* the path infer of the provider's class takes: DashScopeLanguageModel.infer
\* tests the batch and max_workers, LlamaCppLanguageModel.infer has the
\* sequential loop only and never reads self.max_workers
InferPath(provider, n, max_workers) ==
    IF provider = "dashscope" /\ UsesParallelPath(n, max_workers)
    THEN "parallel" ELSE "sequential"

\* the body starts at the first next(): config is built, the path is chosen,
\* the pool is created
InferStart(d) ==
    /\ dsp[d].want
    /\ dsp[d].pc = "created"
    /\ dsp' = [dsp EXCEPT ![d] =
        IF InferPath(model.provider, dsp[d].n, model.max_workers) = "parallel"
        THEN [@ EXCEPT
                !.heap = <<BuildConfig(dsp[d].kwargs)>>, !.config = 1,
                !.pc = "submitting", !.k = 1,
                !.pool = [state |-> "open",
                          size |-> PoolSize(dsp[d].n, model.max_workers)],
                !.worker = [w \in 1..PoolSize(dsp[d].n, model.max_workers) |-> 0],
                !.fut = [f \in 1..dsp[d].n |-> NoFuture],
                !.future_to_index = <<>>]
        ELSE [@ EXCEPT !.heap = <<BuildConfig(dsp[d].kwargs)>>, !.config = 1,
                       !.pc = "seq", !.k = 1]]
    /\ UNCHANGED <<rcfg, rc, model, tables, clf, fn>>

\* executor.submit(self._process_single_prompt, prompt, config.copy()): i
Submit(d) ==
    /\ dsp[d].want
    /\ dsp[d].pc = "submitting"
    /\ dsp[d].k <= dsp[d].n
    /\ LET i == dsp[d].k
           f == Len(dsp[d].future_to_index) + 1
           copy == ConfigCopy(dsp[d].heap, dsp[d].config)
       IN  dsp' = [dsp EXCEPT ![d] =
            [@ EXCEPT
                !.heap = copy.heap,
                !.fut[f] = [NoFuture EXCEPT !.state = "PENDING",
                                            !.prompt = dsp[d].batch[i],
                                            !.config = copy.ref],
                !.future_to_index = Append(@, i),
                !.queue = Append(@, f),
                !.k = i + 1]]
    /\ UNCHANGED <<rcfg, rc, model, tables, clf, fn>>

\* results = [None] * len(batch_prompts); as_completed takes its snapshot of
\* the futures that are already finished
BeginCollect(d) ==
    /\ dsp[d].want
    /\ dsp[d].pc = "submitting"
    /\ dsp[d].k > dsp[d].n
    /\ dsp' = [dsp EXCEPT ![d] =
            [@ EXCEPT
                !.pc = "collecting",
                !.results = [i \in 1..dsp[d].n |-> NoneResult],
                !.ac_finished = {f \in 1..dsp[d].n : dsp[d].fut[f].state = "FINISHED"}]]
    /\ UNCHANGED <<rcfg, rc, model, tables, clf, fn>>

\* an idle worker thread takes the oldest work item of its pool's queue and
\* calls _process_single_prompt(prompt, config) with the dict of the work item
\* bug: once the pool is shutting down its workers take no more work items
WorkerTake_open_only(d, w) ==
    /\ dsp[d].pool.state = "open"
    /\ w \in 1..dsp[d].pool.size
    /\ dsp[d].worker[w] = 0
    /\ dsp[d].queue # <<>>
    /\ LET f == Head(dsp[d].queue)
       IN  dsp' = [dsp EXCEPT ![d] =
            [@ EXCEPT
                !.worker[w] = f,
                !.queue = Tail(@),
                !.given = Append(@, dsp[d].heap[dsp[d].fut[f].config]),
                !.fut[f].state = "RUNNING"]]
    /\ UNCHANGED <<rcfg, rc, model, tables, clf, fn>>

\* an idle worker thread of the pool takes the next work item of the queue
WorkerTake(d, w) ==
    /\ dsp[d].pool.state \in {"open", "shutting_down"}
    /\ w \in 1..dsp[d].pool.size
    /\ dsp[d].worker[w] = 0
    /\ dsp[d].queue # <<>>
    /\ LET f == Head(dsp[d].queue)
       IN  dsp' = [dsp EXCEPT ![d] =
            [@ EXCEPT
                !.worker[w] = f,
                !.queue = Tail(@),
                !.given = Append(@, dsp[d].heap[dsp[d].fut[f].config]),
                !.fut[f].state = "RUNNING"]]
    /\ UNCHANGED <<rcfg, rc, model, tables, clf, fn>>

\* bug: a work item that raised stays on its worker and is run again
WorkerRun_reruns(d, w) ==
    /\ w \in 1..dsp[d].pool.size
    /\ dsp[d].worker[w] # 0
    /\ LET f == dsp[d].worker[w]
           prompt == dsp[d].fut[f].prompt
           j == dsp[d].inv[prompt] + 1
           o == ProcessSinglePrompt(prompt, dsp[d].plan[prompt], j)
       IN  dsp' = [dsp EXCEPT ![d] =
            [@ EXCEPT
                !.inv[prompt] = j,
                !.fut[f] = [@ EXCEPT !.state = "FINISHED", !.ok = o.ok,
                                     !.val = o.val, !.exc = o.exc],
                !.completed = IF f \in {@[k] : k \in 1..Len(@)} THEN @ ELSE Append(@, f),
                !.worker[w] = IF o.ok THEN 0 ELSE f]]
    /\ UNCHANGED <<rcfg, rc, model, tables, clf, fn>>

\* the work item of worker w ends: _process_single_prompt returned or raised,
\* and the future is set
WorkerRun(d, w) ==
    /\ w \in 1..dsp[d].pool.size
    /\ dsp[d].worker[w] # 0
    /\ LET f == dsp[d].worker[w]
           prompt == dsp[d].fut[f].prompt
           j == dsp[d].inv[prompt] + 1
           o == ProcessSinglePrompt(prompt, dsp[d].plan[prompt], j)
       IN  dsp' = [dsp EXCEPT ![d] =
            [@ EXCEPT
                !.inv[prompt] = j,
                !.fut[f] = [@ EXCEPT !.state = "FINISHED", !.ok = o.ok,
                                     !.val = o.val, !.exc = o.exc],
                !.completed = Append(@, f),
                !.worker[w] = 0]]
    /\ UNCHANGED <<rcfg, rc, model, tables, clf, fn>>

\* bug: any finished future may be yielded next
NextCompleted_any(d) ==
    {dsp[d].completed[k] : k \in 1..Len(dsp[d].completed)} \ dsp[d].collected

\* the futures as_completed may yield next: first those of its snapshot, in
\* any order, then the others in the order in which they finished
NextCompleted(d) ==
    LET snapshot == dsp[d].ac_finished \ dsp[d].collected
        later == {k \in 1..Len(dsp[d].completed) :
                    dsp[d].completed[k] \notin dsp[d].collected}
    IN  IF snapshot # {}
        THEN snapshot
        ELSE {dsp[d].completed[k] : k \in {m \in later : \A o \in later : m <= o}}

\* bug: every result is written to the first slot
ResultSlot_first(d, f) ==
    1

\* bug: results are stored in completion order
ResultSlot_completion_order(d, f) ==
    Cardinality(dsp[d].collected) + 1

\* index = future_to_index[future]
ResultSlot(d, f) ==
    dsp[d].future_to_index[f]

\* bug: the task's exception is re-raised as it is
ParallelError_bare(e) ==
    e

\* raise InferenceRuntimeError(f"Parallel inference error: {str(e)}", original=e)
ParallelError(e) ==
    Exc("InferenceRuntimeError", ParallelPrefix \o Str(e), e.origin, e.id)

\* bug: the exception of a failed task is swallowed
FutureResultOk_swallow(d, f) ==
    TRUE

\* future.result() returns the task's value (TRUE) or raises its exception
FutureResultOk(d, f) ==
    dsp[d].fut[f].ok

\* bug: the result buffer is kept on the instance, one for all its infer calls
Collect_shared_buffer(d) ==
    /\ dsp[d].want
    /\ dsp[d].pc = "collecting"
    /\ \E f \in NextCompleted(d) :
        dsp' = [k \in Dispatches |->
            IF k # d
            THEN IF FutureResultOk(d, f) /\ ResultSlot(d, f) \in DOMAIN dsp[k].results
                 THEN [dsp[k] EXCEPT !.results[ResultSlot(d, f)] = dsp[d].fut[f].val]
                 ELSE dsp[k]
            ELSE IF FutureResultOk(d, f)
            THEN [dsp[d] EXCEPT
                    !.results[ResultSlot(d, f)] = dsp[d].fut[f].val,
                    !.collected = @ \cup {f},
                    !.pc = IF dsp[d].collected \cup {f} = 1..dsp[d].n
                           THEN "emitting" ELSE "collecting",
                    !.k = 1]
            ELSE [dsp[d] EXCEPT
                    !.collected = @ \cup {f},
                    !.pending = ParallelError(dsp[d].fut[f].exc),
                    !.pool.state = "shutting_down",
                    !.pc = "exiting"]]
    /\ UNCHANGED <<rcfg, rc, model, tables, clf, fn>>

\* one iteration of `for future in as_completed(future_to_index)`; after the
\* last future the loop is left, on an exception the with block is left
Collect(d) ==
    /\ dsp[d].want
    /\ dsp[d].pc = "collecting"
    /\ \E f \in NextCompleted(d) :
        dsp' = [dsp EXCEPT ![d] =
            IF FutureResultOk(d, f)
            THEN [@ EXCEPT
                    !.results[ResultSlot(d, f)] = dsp[d].fut[f].val,
                    !.collected = @ \cup {f},
                    !.pc = IF dsp[d].collected \cup {f} = 1..dsp[d].n
                           THEN "emitting" ELSE "collecting",
                    !.k = 1]
            ELSE [@ EXCEPT
                    !.collected = @ \cup {f},
                    !.pending = ParallelError(dsp[d].fut[f].exc),
                    !.pool.state = "shutting_down",
                    !.pc = "exiting"]]
    /\ UNCHANGED <<rcfg, rc, model, tables, clf, fn>>

\* one iteration of `for result in results`, or the end of the with body
Emit(d) ==
    /\ dsp[d].want
    /\ dsp[d].pc = "emitting"
    /\ dsp' = [dsp EXCEPT ![d] =
        IF dsp[d].k > dsp[d].n
        THEN [@ EXCEPT !.pool.state = "shutting_down", !.pc = "exiting"]
        ELSE IF dsp[d].results[dsp[d].k] = NoneResult
        THEN [@ EXCEPT
                !.pending = Exc("InferenceRuntimeError", MsgFailedPrompts, "infer", 0),
                !.pool.state = "shutting_down",
                !.pc = "exiting"]
        ELSE [@ EXCEPT
                !.received = Append(@, <<dsp[d].results[dsp[d].k]>>),
                !.want = FALSE,
                !.k = @ + 1]]
    /\ UNCHANGED <<rcfg, rc, model, tables, clf, fn>>

\* bug: shutdown(wait=True, cancel_futures=True): queued work items are dropped
PoolJoined_running_only(d) ==
    BusyWorkers(d) = {}

\* bug: shutdown(wait=False)
PoolJoined_nowait(d) ==
    TRUE

\* executor.shutdown(wait=True) can return: no work item is queued or running
PoolJoined(d) ==
    /\ dsp[d].queue = <<>>
    /\ BusyWorkers(d) = {}

\* ThreadPoolExecutor.__exit__ returns; the generator ends or the pending
\* exception reaches the caller
ExitPool(d) ==
    /\ dsp[d].want
    /\ dsp[d].pc = "exiting"
    /\ PoolJoined(d)
    /\ dsp' = [dsp EXCEPT ![d] =
            [@ EXCEPT
                !.pool.state = "closed",
                !.want = FALSE,
                !.error = dsp[d].pending,
                !.pc = IF dsp[d].pending # NoException THEN "raised" ELSE "done"]]
    /\ UNCHANGED <<rcfg, rc, model, tables, clf, fn>>

\* bug: the loop runs ahead of the caller
SeqInvoke_eager(d) ==
    /\ dsp[d].pc = "seq"
    /\ dsp[d].k <= dsp[d].n
    /\ dsp' = [dsp EXCEPT ![d] =
            LET copy == ConfigCopy(dsp[d].heap, dsp[d].config)
            IN  [@ EXCEPT !.heap = copy.heap, !.task_config = copy.ref,
                          !.given = Append(@, copy.heap[copy.ref]),
                          !.pc = "seq_running"]]
    /\ UNCHANGED <<rcfg, rc, model, tables, clf, fn>>

\* sequential path: `for prompt in batch_prompts` takes its next prompt and
\* calls _process_single_prompt, or the generator ends
SeqInvoke(d) ==
    /\ dsp[d].want
    /\ dsp[d].pc = "seq"
    /\ dsp' = [dsp EXCEPT ![d] =
        IF dsp[d].k > dsp[d].n
        THEN [@ EXCEPT !.pc = "done", !.want = FALSE]
        ELSE LET copy == ConfigCopy(dsp[d].heap, dsp[d].config)
             IN  [@ EXCEPT !.heap = copy.heap, !.task_config = copy.ref,
                           !.given = Append(@, copy.heap[copy.ref]),
                           !.pc = "seq_running"]]
    /\ UNCHANGED <<rcfg, rc, model, tables, clf, fn>>

\* bug: a failure is noted and the loop goes on to the next prompt
SeqReturn_skips(d) ==
    /\ dsp[d].pc = "seq_running"
    /\ LET prompt == dsp[d].batch[dsp[d].k]
           j == dsp[d].inv[prompt] + 1
           o == ProcessSinglePrompt(prompt, dsp[d].plan[prompt], j)
       IN  dsp' = [dsp EXCEPT ![d] =
            IF o.ok
            THEN [@ EXCEPT
                    !.inv[prompt] = j,
                    !.received = Append(@, <<o.val>>),
                    !.want = FALSE,
                    !.k = @ + 1,
                    !.pc = "seq"]
            ELSE [@ EXCEPT
                    !.inv[prompt] = j,
                    !.error = o.exc,
                    !.k = @ + 1,
                    !.pc = "seq"]]
    /\ UNCHANGED <<rcfg, rc, model, tables, clf, fn>>

\* sequential path: _process_single_prompt returns and its result is yielded,
\* or it raises and the exception reaches the caller
SeqReturn(d) ==
    /\ dsp[d].pc = "seq_running"
    /\ LET prompt == dsp[d].batch[dsp[d].k]
           j == dsp[d].inv[prompt] + 1
           o == ProcessSinglePrompt(prompt, dsp[d].plan[prompt], j)
       IN  dsp' = [dsp EXCEPT ![d] =
            IF o.ok
            THEN [@ EXCEPT
                    !.inv[prompt] = j,
                    !.received = Append(@, <<o.val>>),
                    !.want = FALSE,
                    !.k = @ + 1,
                    !.pc = "seq"]
            ELSE [@ EXCEPT
                    !.inv[prompt] = j,
                    !.error = o.exc,
                    !.want = FALSE,
                    !.pc = "raised"]]
    /\ UNCHANGED <<rcfg, rc, model, tables, clf, fn>>

\* the dicts held by the tasks of call d that are running
RunningConfigs(d) ==
    IF dsp[d].pc = "seq_running"
    THEN {dsp[d].task_config}
    ELSE {dsp[d].fut[f].config : f \in {g \in 1..Len(dsp[d].future_to_index) :
                                            dsp[d].fut[g].state = "RUNNING"}}

\* a running task adds, removes or rebinds a key of the dict it was given as
\* config. _process_single_prompt as shipped only reads config; the step
\* stands for what the body of a task can do with a dict it holds
TaskChangesConfig(d) ==
    /\ \E ref \in RunningConfigs(d), key \in ConfigKeys, v \in ConfigValues \cup {Absent} :
        /\ dsp[d].heap[ref][key] # v
        /\ dsp' = [dsp EXCEPT ![d].heap[ref][key] = v]
    /\ UNCHANGED <<rcfg, rc, model, tables, clf, fn>>

-----------------------------------------------------------------------------
(* Specifications *)

\* retry_on_transient_errors(max_retries=3, initial_delay=1.0,
\*                           backoff_factor=2.0, max_delay=60.0, jitter=True)
DefaultRetryConfig ==
    [variant |-> "general", enabled |-> TRUE, jitter |-> TRUE, max_retries |-> 3,
     initial_delay |-> 1000, backoff_factor |-> 2, max_delay |-> 60000]

\* one thread calls a function decorated with any retry configuration
Init ==
    /\ rcfg \in RetryConfigs
    /\ rc = [c \in Calls |-> IdleCall]
    /\ model = [provider |-> "dashscope", max_workers |-> 1]
    /\ dsp = [d \in Dispatches |-> UnusedDispatch]
    /\ tables = InitialTables
    /\ clf = NoClassification
    /\ fn = PlainFunction("func", NoDoc)

Next ==
    \/ GeneralCall(1)
    \/ GeneralInvoke(1)
    \/ GeneralWake(1)
    \/ GeneralPostLoop(1)
    \/ ChunkCall(1)
    \/ ChunkDirect(1)
    \/ ChunkInvoke(1)
    \/ ChunkWake(1)
    \/ ChunkPostLoop(1)

Spec ==
    Init /\ [][Next]_vars

\* one caller iterates over one infer call of a model with any max_workers
InitDispatch ==
    /\ rcfg = DefaultRetryConfig
    /\ rc = [c \in Calls |-> IdleCall]
    /\ model \in [provider : {"dashscope"}, max_workers : 0..MaxWorkersBound]
    /\ dsp = [d \in Dispatches |-> UnusedDispatch]
    /\ tables = InitialTables
    /\ clf = NoClassification
    /\ fn = PlainFunction("func", NoDoc)

NextDispatch ==
    \/ InferCall(1)
    \/ CallerNext(1)
    \/ InferStart(1)
    \/ Submit(1)
    \/ BeginCollect(1)
    \/ \E w \in 1..MaxWorkersBound : WorkerTake(1, w)
    \/ \E w \in 1..MaxWorkersBound : WorkerRun(1, w)
    \/ Collect(1)
    \/ Emit(1)
    \/ ExitPool(1)
    \/ SeqInvoke(1)
    \/ SeqReturn(1)

SpecDispatch ==
    InitDispatch /\ [][NextDispatch]_vars

\* a caller holds any one error and calls is_transient_error on it repeatedly
InitClassify ==
    /\ rcfg = DefaultRetryConfig
    /\ rc = [c \in Calls |-> IdleCall]
    /\ model = [provider |-> "dashscope", max_workers |-> 1]
    /\ dsp = [d \in Dispatches |-> UnusedDispatch]
    /\ tables = InitialTables
    /\ clf \in [error : ClassifyErrors, results : {<<>>}]
    /\ fn = PlainFunction("func", NoDoc)

NextClassify ==
    Classify

SpecClassify ==
    InitClassify /\ [][NextClassify]_vars

InterleavedRetryConfig ==
    [variant |-> "general", enabled |-> TRUE, jitter |-> FALSE, max_retries |-> 1,
     initial_delay |-> 100, backoff_factor |-> 2, max_delay |-> 200]

\* calls of is_transient_error by a caller, one retry-wrapper call and one
\* infer call over two prompts, interleaved in any way
InitInterleaved ==
    /\ rcfg = InterleavedRetryConfig
    /\ rc = [c \in Calls |-> IdleCall]
    /\ model \in [provider : {"dashscope"}, max_workers : {1, 2}]
    /\ dsp = [d \in Dispatches |-> UnusedDispatch]
    /\ tables = InitialTables
    /\ clf \in [error : {Exc(e.type, e.msg, "caller", 1) : e \in FuncErrors},
                results : {<<>>}]
    /\ fn = PlainFunction("func", NoDoc)

NextInterleaved ==
    \/ Classify
    \/ GeneralCall(1)
    \/ GeneralInvoke(1)
    \/ GeneralWake(1)
    \/ InferCallOf(1, {2})
    \/ CallerNext(1)
    \/ InferStart(1)
    \/ Submit(1)
    \/ BeginCollect(1)
    \/ \E w \in 1..2 : WorkerTake(1, w)
    \/ \E w \in 1..2 : WorkerRun(1, w)
    \/ Collect(1)
    \/ Emit(1)
    \/ ExitPool(1)
    \/ SeqInvoke(1)
    \/ SeqReturn(1)

SpecInterleaved ==
    InitInterleaved /\ [][NextInterleaved]_vars

\* infer calls that take the sequential loop: a LlamaCppLanguageModel with
\* any max_workers, or a DashScopeLanguageModel with max_workers <= 1
InitSequential ==
    /\ rcfg = DefaultRetryConfig
    /\ rc = [c \in Calls |-> IdleCall]
    /\ model \in {m \in [provider : {"dashscope", "llama_cpp"},
                          max_workers : 0..MaxWorkersBound] :
                    m.provider = "dashscope" => m.max_workers <= 1}
    /\ dsp = [d \in Dispatches |-> UnusedDispatch]
    /\ tables = InitialTables
    /\ clf = NoClassification
    /\ fn = PlainFunction("func", NoDoc)

NextSequential ==
    \/ InferCall(1)
    \/ CallerNext(1)
    \/ InferStart(1)
    \/ SeqInvoke(1)
    \/ SeqReturn(1)

SpecSequential ==
    InitSequential /\ [][NextSequential]_vars

KwargsChoices ==
    {[NoKwargs EXCEPT !["temperature"] = "0.2", !["max_workers"] = "0.7"],
     [NoKwargs EXCEPT !["top_p"] = "0.7"]}

\* an infer call over two prompts whose tasks change the dicts they hold
InitConfig ==
    /\ rcfg = DefaultRetryConfig
    /\ rc = [c \in Calls |-> IdleCall]
    /\ model \in [provider : {"dashscope"}, max_workers : {1, 2}]
    /\ dsp = [d \in Dispatches |-> UnusedDispatch]
    /\ tables = InitialTables
    /\ clf = NoClassification
    /\ fn = PlainFunction("func", NoDoc)

NextConfig ==
    \/ InferCallWith(1, {2}, KwargsChoices)
    \/ CallerNext(1)
    \/ InferStart(1)
    \/ Submit(1)
    \/ BeginCollect(1)
    \/ \E w \in 1..2 : WorkerTake(1, w)
    \/ \E w \in 1..2 : WorkerRun(1, w)
    \/ Collect(1)
    \/ Emit(1)
    \/ ExitPool(1)
    \/ SeqInvoke(1)
    \/ SeqReturn(1)
    \/ TaskChangesConfig(1)

SpecConfig ==
    InitConfig /\ [][NextConfig]_vars

FunctionNames ==
    {"test_function", "test_chunk_function", "wrapper"}

FunctionDocs ==
    {NoDoc, <<"Test function docstring.">>, <<"Test chunk function docstring.">>}

\* a function is decorated up to MaxLayers times
InitDecorate ==
    /\ rcfg = DefaultRetryConfig
    /\ rc = [c \in Calls |-> IdleCall]
    /\ model = [provider |-> "dashscope", max_workers |-> 1]
    /\ dsp = [d \in Dispatches |-> UnusedDispatch]
    /\ tables = InitialTables
    /\ clf = NoClassification
    /\ fn \in {PlainFunction(name, doc) : name \in FunctionNames, doc \in FunctionDocs}

NextDecorate ==
    \/ DecorateGeneral
    \/ DecorateChunk

SpecDecorate ==
    InitDecorate /\ [][NextDecorate]_vars

\* one function under both decorators, with any configuration of the
\* RetryConfig domain (max_retries >= 0)
InitPair ==
    /\ rcfg \in {cfg \in RetryConfigs : cfg.variant = "general" /\ cfg.max_retries >= 0}
    /\ rc = [c \in Calls |-> IdleCall]
    /\ model = [provider |-> "dashscope", max_workers |-> 1]
    /\ dsp = [d \in Dispatches |-> UnusedDispatch]
    /\ tables = InitialTables
    /\ clf = NoClassification
    /\ fn = PlainFunction("func", NoDoc)

NextPair ==
    \/ PairCall
    \/ PairInvoke
    \/ PairWake

SpecPair ==
    InitPair /\ [][NextPair]_vars


\* two calls of the same decorated function, on two threads or one after the
\* other, interleaved in any way
InitConcurrent ==
    /\ rcfg \in {cfg \in RetryConfigs :
                    /\ cfg.max_retries >= 0
                    /\ cfg.initial_delay = 100
                    /\ cfg.backoff_factor = 2}
    /\ rc = [c \in Calls |-> IdleCall]
    /\ model = [provider |-> "dashscope", max_workers |-> 1]
    /\ dsp = [d \in Dispatches |-> UnusedDispatch]
    /\ tables = InitialTables
    /\ clf = NoClassification
    /\ fn = PlainFunction("func", NoDoc)

NextConcurrent ==
    \E c \in Calls :
        \/ GeneralCall(c)
        \/ GeneralInvoke(c)
        \/ GeneralWake(c)
        \/ ChunkCall(c)
        \/ ChunkDirect(c)
        \/ ChunkInvoke(c)
        \/ ChunkWake(c)

SpecConcurrent ==
    InitConcurrent /\ [][NextConcurrent]_vars


\* retry_chunk_processing with the settings of cfg and enabled=False
DisabledChunk(cfg) ==
    [cfg EXCEPT !.variant = "chunk", !.enabled = FALSE, !.jitter = TRUE]

\* the wrapper of cfg (either one, retry enabled) with max_retries=0
ZeroRetries(cfg) ==
    [cfg EXCEPT !.max_retries = 0, !.enabled = TRUE]

\* call 1 is made through retry_chunk_processing(enabled=False) and call 2
\* through the wrapper of rcfg with max_retries=0, around the same function
DisabledPairCall ==
    /\ rc[1].pc = "idle"
    /\ rc[2].pc = "idle"
    /\ rc' = [rc EXCEPT
                ![1] = ChunkLocals(DisabledChunk(rcfg)),
                ![2] = IF rcfg.variant = "general"
                       THEN GeneralLocals(ZeroRetries(rcfg))
                       ELSE ChunkLocals(ZeroRetries(rcfg))]
    /\ UNCHANGED <<rcfg, model, dsp, tables, clf, fn>>

\* the next invocation of func has the same outcome in both calls
DisabledPairInvoke ==
    /\ rc[1].pc \in {"direct", "try"} \/ rc[2].pc = "try"
    /\ \E o \in FuncOutcomes(Min(Invocations(1), Invocations(2)) + 1),
          r \in 0..(JitterSteps - 1) :
        rc' = [rc EXCEPT
                ![1] = IF rc[1].pc = "direct" THEN ChunkDirectReturn(rc[1], o)
                       ELSE IF rc[1].pc = "try"
                       THEN ChunkIteration(DisabledChunk(rcfg), rc[1], o, r)
                       ELSE @,
                ![2] = IF rc[2].pc # "try" THEN @
                       ELSE IF rcfg.variant = "general"
                       THEN GeneralIteration(ZeroRetries(rcfg), rc[2], o, r)
                       ELSE ChunkIteration(ZeroRetries(rcfg), rc[2], o, r)]
    /\ UNCHANGED <<rcfg, model, dsp, tables, clf, fn>>

InitDisabledPair ==
    /\ rcfg \in RetryConfigs
    /\ rc = [c \in Calls |-> IdleCall]
    /\ model = [provider |-> "dashscope", max_workers |-> 1]
    /\ dsp = [d \in Dispatches |-> UnusedDispatch]
    /\ tables = InitialTables
    /\ clf = NoClassification
    /\ fn = PlainFunction("func", NoDoc)

NextDisabledPair ==
    \/ DisabledPairCall
    \/ DisabledPairInvoke

SpecDisabledPair ==
    InitDisabledPair /\ [][NextDisabledPair]_vars


\* one infer call over up to MaxLiveBatch prompts
NextLive ==
    \/ InferCallOf(1, 0..MaxLiveBatch)
    \/ CallerNext(1)
    \/ InferStart(1)
    \/ Submit(1)
    \/ BeginCollect(1)
    \/ \E w \in 1..MaxWorkersBound : WorkerTake(1, w)
    \/ \E w \in 1..MaxWorkersBound : WorkerRun(1, w)
    \/ Collect(1)
    \/ Emit(1)
    \/ ExitPool(1)
    \/ SeqInvoke(1)
    \/ SeqReturn(1)

\* the caller keeps asking for the next item, the thread that runs the
\* generator body is scheduled, every worker thread of the pool is scheduled
\* and every call of _process_single_prompt returns or raises
FairLive ==
    /\ WF_vars(CallerNext(1))
    /\ WF_vars(InferStart(1))
    /\ WF_vars(Submit(1))
    /\ WF_vars(BeginCollect(1))
    /\ WF_vars(Collect(1))
    /\ WF_vars(Emit(1))
    /\ WF_vars(ExitPool(1))
    /\ WF_vars(SeqInvoke(1))
    /\ WF_vars(SeqReturn(1))
    /\ \A w \in 1..MaxWorkersBound :
        /\ WF_vars(WorkerTake(1, w))
        /\ WF_vars(WorkerRun(1, w))

SpecLive ==
    InitDispatch /\ [][NextLive]_vars /\ FairLive


\* two infer calls on the same instance, with max_workers 2, made by two
\* threads: one over three prompts and one over two others, interleaved in
\* any way
InitTwoCalls ==
    /\ rcfg = DefaultRetryConfig
    /\ rc = [c \in Calls |-> IdleCall]
    /\ model = [provider |-> "dashscope", max_workers |-> 2]
    /\ dsp = [d \in Dispatches |-> UnusedDispatch]
    /\ tables = InitialTables
    /\ clf = NoClassification
    /\ fn = PlainFunction("func", NoDoc)

NextTwoCalls ==
    \/ InferCallBatch(1, <<"a", "b", "c">>, {{}, {"b"}})
    \/ InferCallBatch(2, <<"d", "e">>, {{}, {"d"}})
    \/ \E d \in Dispatches :
        \/ CallerNext(d)
        \/ InferStart(d)
        \/ Submit(d)
        \/ BeginCollect(d)
        \/ \E w \in 1..2 : WorkerTake(d, w)
        \/ \E w \in 1..2 : WorkerRun(d, w)
        \/ Collect(d)
        \/ Emit(d)
        \/ ExitPool(d)

SpecTwoCalls ==
    InitTwoCalls /\ [][NextTwoCalls]_vars


-----------------------------------------------------------------------------
(* Properties *)

Terminated(c) ==
    rc[c].pc \in {"returned", "raised"}

RetryEnabled ==
    rcfg.variant = "general" \/ rcfg.enabled

TransientRaise(o) ==
    ~o.ok /\ is_transient_error(o.exc)

PermanentRaise(o) ==
    ~o.ok /\ ~is_transient_error(o.exc)

LastOut(c) ==
    rc[c].outs[Len(rc[c].outs)]

\* infer call d took the parallel path
Parallel(d) ==
    dsp[d].pool.state # "none"

Ended(d) ==
    dsp[d].pc \in {"done", "raised"}

\* the backend answers every prompt of call d at its first call
AllUnitsSucceed(d) ==
    \A p \in DOMAIN dsp[d].plan : dsp[d].plan[p] = <<>>

\* the first items the caller received are the results of the first prompts
Aligned(d) ==
    /\ Len(dsp[d].received) <= dsp[d].n
    /\ \A i \in 1..Len(dsp[d].received) :
        dsp[d].received[i] = <<ScoredOutput(Batch(dsp[d].n)[i])>>

\* C1: when every prompt's unit succeeds, infer never raises, what it has
\* yielded so far is item i = [result of prompt i] for i = 1, 2, ..., and
\* when it ends it has yielded exactly N items, for every N, every
\* max_workers and every completion order.
C1_OrderedResults ==
    \A d \in Dispatches :
        AllUnitsSucceed(d) =>
            /\ dsp[d].pc # "raised"
            /\ Aligned(d)
            /\ dsp[d].pc = "done" => Len(dsp[d].received) = dsp[d].n

\* three prompts on the parallel path, finished out of input order, all yielded
C1_Witness ==
    /\ dsp[1].pc = "done"
    /\ Parallel(1)
    /\ dsp[1].n = 3
    /\ AllUnitsSucceed(1)
    /\ dsp[1].completed = <<3, 1, 2>>
    /\ Len(dsp[1].received) = 3

\* C2: a wrapper call (either variant, retry enabled) whose function raises
\* transient errors on its first k calls (k <= max_retries) and then returns
\* ends only after k+1 invocations, returning the value of invocation k+1.
C2_TransientThenSuccess ==
    \A c \in Calls : \A k \in 0..rcfg.max_retries :
        ( /\ RetryEnabled
          /\ Terminated(c)
          /\ Len(rc[c].outs) <= k + 1
          /\ \A j \in 1..Len(rc[c].outs) :
                /\ j <= k => TransientRaise(rc[c].outs[j])
                /\ j = k + 1 => rc[c].outs[j].ok )
        => /\ Len(rc[c].outs) = k + 1
           /\ rc[c].result = ReturnOf(rc[c].outs[k + 1].val)
           /\ rc[c].result.val = k + 1

\* the chunk variant returned at the third invocation after two transient errors
C2_Witness ==
    /\ rcfg.variant = "chunk"
    /\ rcfg.enabled
    /\ rc[1].pc = "returned"
    /\ Len(rc[1].outs) = 3
    /\ TransientRaise(rc[1].outs[1])
    /\ TransientRaise(rc[1].outs[2])
    /\ rc[1].result.val = 3

\* C3: with max_retries >= 0, a wrapper call whose function raised a
\* transient error at every invocation ends only after max_retries+1
\* invocations and raises the exception object of the last invocation; and a
\* wrapper call raises a transient error only after max_retries+1 failed
\* invocations.
C3_ExhaustedRaisesOriginal ==
    \A c \in Calls :
        (RetryEnabled /\ rcfg.max_retries >= 0 /\ Terminated(c)) =>
            /\ (\A j \in 1..Len(rc[c].outs) : TransientRaise(rc[c].outs[j]))
                => /\ Len(rc[c].outs) = rcfg.max_retries + 1
                   /\ rc[c].result = RaiseOf(LastOut(c).exc)
                   /\ rc[c].result.exc.origin = "func"
                   /\ rc[c].result.exc.id = rcfg.max_retries + 1
            /\ (rc[c].pc = "raised" /\ is_transient_error(rc[c].result.exc))
                => /\ Len(rc[c].outs) = rcfg.max_retries + 1
                   /\ \A j \in 1..Len(rc[c].outs) : ~rc[c].outs[j].ok

\* max_retries = 2, three transient failures, the third one is raised
C3_Witness ==
    /\ rcfg.variant = "general"
    /\ rcfg.max_retries = 2
    /\ rc[1].pc = "raised"
    /\ Len(rc[1].outs) = 3
    /\ \A j \in 1..3 : TransientRaise(rc[1].outs[j])
    /\ rc[1].result.exc.id = 3

\* C4: an invocation that raised a non-transient error is the last invocation
\* of its wrapper call, the call has raised that same exception object, and
\* no sleep was started after it (as many sleeps as earlier invocations).
C4_PermanentPropagatesAtOnce ==
    \A c \in Calls : \A j \in 1..Len(rc[c].outs) :
        PermanentRaise(rc[c].outs[j]) =>
            /\ j = Len(rc[c].outs)
            /\ rc[c].pc = "raised"
            /\ rc[c].result = RaiseOf(rc[c].outs[j].exc)
            /\ Len(rc[c].sleeps) = j - 1

\* a non-transient error at the second attempt, after one transient failure
C4_Witness ==
    /\ RetryEnabled
    /\ rc[1].pc = "raised"
    /\ Len(rc[1].outs) = 2
    /\ TransientRaise(rc[1].outs[1])
    /\ PermanentRaise(rc[1].outs[2])
    /\ Len(rc[1].sleeps) = 1

\* C5: with retry enabled and max_retries >= 0, a wrapper call never makes
\* more than max_retries+1 invocations, and it has made at least one when it
\* ends.
C5_AttemptBounds ==
    \A c \in Calls :
        (RetryEnabled /\ rcfg.max_retries >= 0) =>
            /\ Len(rc[c].outs) <= rcfg.max_retries + 1
            /\ Terminated(c) => Len(rc[c].outs) >= 1

\* a call with max_retries = 0 ended after its single invocation failed
C5_Witness ==
    /\ RetryEnabled
    /\ rcfg.max_retries = 0
    /\ rc[1].pc = "raised"
    /\ Len(rc[1].outs) = 1
    /\ TransientRaise(rc[1].outs[1])

\* C6: with retry_chunk_processing(enabled=False) a wrapper call never sleeps,
\* invokes the function once, and ends with that invocation's outcome: its
\* value, or its exception object whether transient or not.
C6_DisabledPassThrough ==
    \A c \in Calls :
        (rcfg.variant = "chunk" /\ ~rcfg.enabled) =>
            /\ rc[c].sleeps = <<>>
            /\ Len(rc[c].outs) <= 1
            /\ Terminated(c) =>
                /\ Len(rc[c].outs) = 1
                /\ rc[c].result = IF rc[c].outs[1].ok
                                  THEN ReturnOf(rc[c].outs[1].val)
                                  ELSE RaiseOf(rc[c].outs[1].exc)

\* disabled, max_retries > 0, and a transient error went straight through
C6_Witness ==
    /\ rcfg.variant = "chunk"
    /\ ~rcfg.enabled
    /\ rcfg.max_retries > 0
    /\ rc[1].pc = "raised"
    /\ TransientRaise(rc[1].outs[1])
    /\ rc[1].result.exc = rc[1].outs[1].exc

\* the backend fails only transiently for d, at most max_retries times per prompt
OnlyTransientFailures(d) ==
    \A p \in DOMAIN dsp[d].plan :
        /\ Len(dsp[d].plan[p]) <= DefaultRetryConfig.max_retries
        /\ \A j \in 1..Len(dsp[d].plan[p]) :
            is_transient_error(Exc(dsp[d].plan[p][j].type, dsp[d].plan[p][j].msg, p, j))

\* C7: when the unit of each prompt fails transiently k_i <= max_retries
\* times and then succeeds, infer ends by yielding all N results in input
\* order and the unit of prompt i was invoked k_i + 1 times.
C7_TasksAreRetried ==
    \A d \in Dispatches :
        (OnlyTransientFailures(d) /\ Ended(d)) =>
            /\ dsp[d].pc = "done"
            /\ Aligned(d)
            /\ Len(dsp[d].received) = dsp[d].n
            /\ \A p \in DOMAIN dsp[d].plan :
                dsp[d].inv[p] = Len(dsp[d].plan[p]) + 1

\* a failed task has been seen by the collection loop and not yet raised
FailureDetected(d) ==
    /\ dsp[d].pc = "exiting"
    /\ dsp[d].pending # NoException

AllTasksFinished(d) ==
    \A f \in 1..dsp[d].n : dsp[d].fut[f].state = "FINISHED"

\* C8 as claimed: once a task's failure is detected, infer can raise it to
\* its caller at once, whether or not the other tasks have completed.
C8_RaisesWithoutWaiting ==
    \A d \in Dispatches :
        FailureDetected(d) => PoolJoined(d)

\* C8 as amended: on the parallel path a failure reaches the caller only
\* after every task of the batch has finished; none is pending or running.
C8_RaisesAfterAllTasksEnd ==
    \A d \in Dispatches :
        (Parallel(d) /\ dsp[d].pc = "raised") => AllTasksFinished(d)

\* the first task to finish failed and was the only one collected; the two
\* others finished before the caller saw the failure
C8_Witness ==
    /\ Parallel(1)
    /\ dsp[1].pc = "raised"
    /\ dsp[1].n = 3
    /\ dsp[1].ac_finished = {2}
    /\ dsp[1].collected = {2}
    /\ Len(dsp[1].completed) = 3

\* C9: when the caller observes the end of the sequence or the failure of a
\* parallel infer call, the pool of that call is closed, its queue is empty
\* and none of its workers runs a task.
C9_PoolClosedAtExit ==
    \A d \in Dispatches :
        (Parallel(d) /\ Ended(d)) =>
            /\ dsp[d].pool.state = "closed"
            /\ dsp[d].queue = <<>>
            /\ BusyWorkers(d) = {}

\* a parallel call that ended normally with its pool closed
C9_Witness ==
    /\ Parallel(1)
    /\ dsp[1].pc = "done"
    /\ dsp[1].pool.state = "closed"
    /\ dsp[1].pool.size = 2
    /\ dsp[1].n = 3

SomeTaskFailed(d) ==
    \E f \in 1..dsp[d].n :
        dsp[d].fut[f].state = "FINISHED" /\ ~dsp[d].fut[f].ok

\* C10: on the parallel path, once a task has failed the caller has received
\* nothing and the call cannot end normally; the caller receives an item only
\* when all N tasks have succeeded.
C10_AllOrNothing ==
    \A d \in Dispatches :
        Parallel(d) =>
            /\ SomeTaskFailed(d) => (dsp[d].received = <<>> /\ dsp[d].pc # "done")
            /\ dsp[d].received # <<>> =>
                \A f \in 1..dsp[d].n :
                    dsp[d].fut[f].state = "FINISHED" /\ dsp[d].fut[f].ok

\* one task failed after two results had been stored; nothing was yielded
C10_Witness ==
    /\ Parallel(1)
    /\ dsp[1].pc = "raised"
    /\ dsp[1].n = 3
    /\ Cardinality({i \in 1..3 : dsp[1].results[i] # NoneResult}) = 2
    /\ dsp[1].received = <<>>


\* the finished tasks of call d whose _process_single_prompt raised
FailedTasks(d) ==
    {f \in 1..Len(dsp[d].fut) :
        dsp[d].fut[f].state = "FINISHED" /\ ~dsp[d].fut[f].ok}

\* C11 as claimed: the failure raised on the parallel path has the kind and
\* the message of the failing task's own failure.
C11_RaisesTaskFailureUnmodified ==
    \A d \in Dispatches :
        (Parallel(d) /\ dsp[d].pc = "raised") =>
            \E f \in FailedTasks(d) :
                /\ dsp[d].error.type = dsp[d].fut[f].exc.type
                /\ dsp[d].error.msg = dsp[d].fut[f].exc.msg

\* C11 as amended: the failure raised on the parallel path is an
\* InferenceRuntimeError whose message is "Parallel inference error: "
\* followed by the message of a failed task that was collected; the
\* sequential path raises the exception of _process_single_prompt itself,
\* "DashScope API error: " followed by the backend's message.
C11_RaisesPrefixedTaskFailure ==
    \A d \in Dispatches :
        dsp[d].pc = "raised" =>
            IF Parallel(d)
            THEN \E f \in FailedTasks(d) \cap dsp[d].collected :
                    /\ dsp[d].error.type = "InferenceRuntimeError"
                    /\ dsp[d].error.msg = ParallelPrefix \o dsp[d].fut[f].exc.msg
                    /\ dsp[d].error.origin = dsp[d].fut[f].exc.origin
            ELSE LET prompt == Batch(dsp[d].n)[dsp[d].k]
                 IN  /\ dsp[d].error.type = "InferenceRuntimeError"
                     /\ dsp[d].error.msg =
                            DashScopePrefix \o dsp[d].plan[prompt][1].msg
                     /\ dsp[d].error.origin = prompt

\* a parallel call raised the doubly prefixed message of an authentication error
C11_Witness ==
    /\ Parallel(1)
    /\ dsp[1].pc = "raised"
    /\ dsp[1].error.msg = ParallelPrefix \o DashScopePrefix \o MsgInvalidKey

\* tasks of call d inside _process_single_prompt
RunningTasks(d) ==
    IF Parallel(d)
    THEN {f \in 1..Len(dsp[d].fut) : dsp[d].fut[f].state = "RUNNING"}
    ELSE IF dsp[d].pc = "seq_running" THEN {dsp[d].k} ELSE {}

\* C12: at every moment the number of running tasks of an infer call is at
\* most min(max_workers, N) on the parallel path and at most 1 on the
\* sequential path.
C12_RunningBounded ==
    \A d \in Dispatches :
        /\ Parallel(d) =>
            Cardinality(RunningTasks(d)) <= Min(model.max_workers, dsp[d].n)
        /\ ~Parallel(d) => Cardinality(RunningTasks(d)) <= 1

\* three prompts, two workers, both busy while the third task is queued
C12_Witness ==
    /\ Parallel(1)
    /\ model.max_workers = 2
    /\ dsp[1].n = 3
    /\ Cardinality(RunningTasks(1)) = 2
    /\ dsp[1].queue = <<3>>

Started(d) ==
    dsp[d].pc \notin {"unused", "created"}

\* C13: once the body of infer has started, the call is on the sequential
\* path with no pool exactly when N <= 1 or max_workers <= 1, and otherwise
\* it has a pool of exactly min(max_workers, N) >= 2 workers.
C13_PathChoice ==
    \A d \in Dispatches :
        Started(d) =>
            IF dsp[d].n <= 1 \/ model.max_workers <= 1
            THEN /\ dsp[d].pool = [state |-> "none", size |-> 0]
                 /\ dsp[d].worker = <<>>
            ELSE /\ dsp[d].pool.state \in {"open", "shutting_down", "closed"}
                 /\ dsp[d].pool.size = Min(model.max_workers, dsp[d].n)
                 /\ dsp[d].pool.size >= 2
                 /\ Len(dsp[d].worker) = dsp[d].pool.size

\* max_workers = 0 with three prompts: sequential, all processed, no pool
C13_Witness ==
    /\ model.max_workers = 0
    /\ dsp[1].n = 3
    /\ dsp[1].pc = "done"
    /\ dsp[1].pool.state = "none"
    /\ Len(dsp[1].received) = 3


\* the type names the classifier is documented to treat as transient
ListedTypeNames ==
    {"ServiceUnavailable", "RateLimitError", "Timeout", "ConnectionError",
     "TimeoutError", "OSError", "RuntimeError"}

\* a and b are the same character up to letter case
SameLetter(a, b) ==
    \/ a = b
    \/ a \in DOMAIN UpperToLower /\ UpperToLower[a] = b
    \/ b \in DOMAIN UpperToLower /\ UpperToLower[b] = a

\* pattern occurs in msg when letter case is disregarded
OccursIgnoringCase(pattern, msg) ==
    \E i \in 1..(Len(msg) - Len(pattern) + 1) :
        \A j \in 1..Len(pattern) : SameLetter(msg[i + j - 1], pattern[j])

HasListedPattern(msg) ==
    \E k \in 1..Len(TRANSIENT_ERROR_PATTERNS) :
        OccursIgnoringCase(TRANSIENT_ERROR_PATTERNS[k], msg)

\* C14: every verdict of is_transient_error on an error is TRUE exactly when
\* a listed pattern occurs in the error's message, letter case disregarded,
\* or the error's type name is one of the listed names; so an error with
\* neither (a subclass with another name included) is permanent.
C14_PatternOrExactType ==
    \A k \in 1..Len(clf.results) :
        clf.results[k] =
            (HasListedPattern(clf.error.msg) \/ clf.error.type \in ListedTypeNames)

\* ConnectionResetError("boom") was classified permanent
C14_Witness ==
    /\ clf.error.type = "ConnectionResetError"
    /\ clf.error.msg = MsgBoom
    /\ clf.results = <<FALSE>>

\* m1 and m2 differ at most in letter case
CaseVariants(m1, m2) ==
    /\ Len(m1) = Len(m2)
    /\ \A i \in 1..Len(m1) : SameLetter(m1[i], m2[i])

\* C15: the verdict on an error is the verdict on every error of the same
\* type whose message differs only in letter case, and a message in which a
\* listed pattern occurs in any capitalisation is transient whatever the type.
C15_CaseInsensitive ==
    \A k \in 1..Len(clf.results) :
        /\ \A m \in ClassifyMessages :
            CaseVariants(m, clf.error.msg) =>
                is_transient_error([clf.error EXCEPT !.msg = m]) = clf.results[k]
        /\ HasListedPattern(clf.error.msg) => clf.results[k]

\* ValueError("CONNECTION TIMEOUT") was classified transient
C15_Witness ==
    /\ clf.error.type = "ValueError"
    /\ Len(clf.error.msg) = 18
    /\ SubSeq(clf.error.msg, 1, 4) = <<"C", "O", "N", "N">>
    /\ clf.results = <<TRUE>>

\* C16: every InferenceConfigError, whatever its message, is classified
\* permanent.
C16_ConfigErrorIsPermanent ==
    \A k \in 1..Len(clf.results) :
        clf.error.type = "InferenceConfigError" => ~clf.results[k]

\* C17: whatever retry-wrapper and infer steps are interleaved with them,
\* all verdicts of is_transient_error on the same error are the same, and the
\* two lists are as the import left them.
C17_SameVerdictTablesUntouched ==
    /\ tables = InitialTables
    /\ \A k \in 1..Len(clf.results) : clf.results[k] = clf.results[1]

\* the error was classified twice while a wrapper call and a parallel infer
\* call ran to their ends
C17_Witness ==
    /\ Len(clf.results) = 2
    /\ rc[1].pc = "raised"
    /\ Len(rc[1].outs) = 2
    /\ Parallel(1)
    /\ dsp[1].pc = "done"


\* C18: every delay slept by a wrapper call, of either wrapper, is at most
\* 1.1 times max_delay, also when initial_delay is above max_delay.
C18_SleepAtMostCapPlusTenth ==
    \A c \in Calls : \A j \in 1..Len(rc[c].sleeps) :
        10 * rc[c].sleeps[j] <= 11 * rcfg.max_delay

\* initial_delay is above max_delay and the second sleep, with jitter, was
\* longer than max_delay
C18_Witness ==
    /\ rcfg.initial_delay > rcfg.max_delay
    /\ Len(rc[1].sleeps) = 2
    /\ rc[1].sleeps[2] > rcfg.max_delay

\* C19 as stated: with backoff_factor > 1 the slept delays of one wrapper
\* call never decrease from one sleep to the next, jitter included.
C19_SleepsNeverDecrease ==
    \A c \in Calls : \A j \in 1..(Len(rc[c].sleeps) - 1) :
        rcfg.backoff_factor > 1 => rc[c].sleeps[j + 1] >= rc[c].sleeps[j]

\* C19: the slept delays of one wrapper call never decrease when jitter is
\* off; with jitter each one is more than the one before divided by 1.1
\* (the delays before jitter never decrease).
C19_SleepsNeverDecreaseUpToJitter ==
    \A c \in Calls : \A j \in 1..(Len(rc[c].sleeps) - 1) :
        /\ ~rcfg.jitter => rc[c].sleeps[j + 1] >= rc[c].sleeps[j]
        /\ 11 * rc[c].sleeps[j + 1] > 10 * rc[c].sleeps[j]

\* with backoff_factor 2 and the cap reached, a jittered sleep was followed
\* by a shorter one
C19_Witness ==
    /\ rcfg.backoff_factor > 1
    /\ rcfg.jitter
    /\ Len(rc[1].sleeps) = 2
    /\ rc[1].sleeps[2] < rc[1].sleeps[1]

RECURSIVE Pow(_, _)
\* b to the power n
Pow(b, n) ==
    IF n = 0 THEN 1 ELSE b * Pow(b, n - 1)

\* base_j = min(initial_delay * backoff_factor^(j-1), max_delay)
BaseDelay(j) ==
    Min(rcfg.initial_delay * Pow(rcfg.backoff_factor, j - 1), rcfg.max_delay)

\* C20: in retry_on_transient_errors the j-th slept delay is base_j when
\* jitter is off and is in [base_j, 1.1 * base_j) when jitter is on.
C20_SleepIsBasePlusJitter ==
    rcfg.variant = "general" =>
        \A c \in Calls : \A j \in 1..Len(rc[c].sleeps) :
            IF rcfg.jitter
            THEN /\ BaseDelay(j) <= rc[c].sleeps[j]
                 /\ 10 * rc[c].sleeps[j] < 11 * BaseDelay(j)
            ELSE rc[c].sleeps[j] = BaseDelay(j)

\* the second sleep of a jittered call was longer than its base of twice the
\* initial delay
C20_Witness ==
    /\ rcfg.variant = "general"
    /\ rcfg.jitter
    /\ Len(rc[1].sleeps) = 2
    /\ BaseDelay(2) = 2 * rcfg.initial_delay
    /\ rc[1].sleeps[2] > BaseDelay(2)


\* call 1 and call 2 have made the same invocations with the same outcomes,
\* have slept as many times and are at the same place
SameCourse ==
    /\ rc[1].pc = rc[2].pc
    /\ rc[1].outs = rc[2].outs
    /\ rc[1].result = rc[2].result
    /\ Len(rc[1].sleeps) = Len(rc[2].sleeps)

\* C21 as stated: under the same configuration, jitter setting included, the
\* two wrappers make the same invocations, sleep the same delays and end the
\* same way.
C21_ChunkEqualsGeneral ==
    SameCourse /\ rc[1].sleeps = rc[2].sleeps

\* C21: the two wrappers make the same invocations, sleep at the same places
\* and end the same way; the delays are the same when the general wrapper
\* has jitter on, and with jitter off each delay of the chunk wrapper is the
\* general wrapper's delay plus less than a tenth of it.
C21_ChunkEqualsGeneralUpToJitter ==
    /\ SameCourse
    /\ rcfg.jitter => rc[1].sleeps = rc[2].sleeps
    /\ \A j \in 1..Len(rc[1].sleeps) :
        /\ rc[1].sleeps[j] <= rc[2].sleeps[j]
        /\ 10 * rc[2].sleeps[j] < 11 * rc[1].sleeps[j]

\* with jitter off in the general wrapper both calls ended after two sleeps,
\* and the chunk wrapper slept longer
C21_Witness ==
    /\ ~rcfg.jitter
    /\ Terminated(1)
    /\ Terminated(2)
    /\ Len(rc[2].sleeps) = 2
    /\ rc[2].sleeps[2] > rc[1].sleeps[2]


\* C22: the name and the documentation string of a function under one or
\* more retry decorators, of either kind, are those of the undecorated
\* function.
C22_IdentityPreserved ==
    /\ fn.name = fn.func.name
    /\ fn.doc = fn.func.doc

\* test_function with its docstring is under both decorators, stacked
C22_Witness ==
    /\ fn.layers = <<"general", "chunk">>
    /\ fn.name = "test_function"
    /\ fn.doc = <<"Test function docstring.">>


\* the dicts of the tasks of call d that were submitted
TaskConfigs(d) ==
    {dsp[d].fut[f].config : f \in 1..Len(dsp[d].future_to_index)}

\* C23: whatever the tasks do to the dicts they hold, infer's config keeps the
\* keys and values infer gave it, every task is handed a dict with exactly
\* those, and no two tasks hold the same dict nor any task infer's own.
C23_TaskConfigIsolated ==
    \A d \in Dispatches :
        dsp[d].heap # <<>> =>
            /\ dsp[d].heap[dsp[d].config] = BuildConfig(dsp[d].kwargs)
            /\ \A j \in 1..Len(dsp[d].given) :
                    dsp[d].given[j] = BuildConfig(dsp[d].kwargs)
            /\ dsp[d].config \notin TaskConfigs(d) \cup {dsp[d].task_config}
            /\ Cardinality(TaskConfigs(d)) = Len(dsp[d].future_to_index)

\* on the parallel path both tasks changed their dicts, to different ones,
\* and the call ended
C23_Witness ==
    /\ Parallel(1)
    /\ dsp[1].pc = "done"
    /\ Len(dsp[1].given) = 2
    /\ dsp[1].heap[2] # dsp[1].heap[1]
    /\ dsp[1].heap[3] # dsp[1].heap[1]
    /\ dsp[1].heap[2] # dsp[1].heap[3]

\* on the sequential path the first task changed its dict before the second
\* was handed its own
C23_WitnessSequential ==
    /\ ~Parallel(1)
    /\ dsp[1].pc = "done"
    /\ Len(dsp[1].given) = 2
    /\ dsp[1].heap[2] # dsp[1].heap[1]


\* the state of task f of call d in the terms of the task life cycle
TaskState(d, f) ==
    IF dsp[d].fut[f].state # "FINISHED" THEN dsp[d].fut[f].state
    ELSE IF dsp[d].fut[f].ok THEN "SUCCESS" ELSE "FAILED"

TaskMoves ==
    { <<"NONE", "PENDING">>, <<"PENDING", "RUNNING">>, <<"RUNNING", "SUCCESS">>,
      <<"RUNNING", "FAILED">>, <<"RUNNING", "RETRY_WAIT">>, <<"RETRY_WAIT", "RUNNING">> }

\* C24: in every step of a parallel infer call each task stays in its state
\* or makes one of the moves of the life cycle, a task that exists starts in
\* PENDING, and a task in SUCCESS or FAILED is never changed nor run again.
C24_TaskLifeCycle ==
    [][\A d \in Dispatches :
        (dsp[d].fut # <<>> /\ dsp'[d].fut # <<>>) =>
            \A f \in 1..dsp[d].n :
                /\ \/ TaskState(d, f)' = TaskState(d, f)
                   \/ <<TaskState(d, f), TaskState(d, f)'>> \in TaskMoves
                /\ TaskState(d, f) \in {"SUCCESS", "FAILED"} =>
                    /\ dsp'[d].fut[f] = dsp[d].fut[f]
                    /\ dsp'[d].inv[dsp[d].fut[f].prompt] = 1
                    /\ \A w \in 1..dsp[d].pool.size : dsp'[d].worker[w] # f]_vars

\* a parallel call ended with one task in FAILED and another in SUCCESS
C24_Witness ==
    /\ Parallel(1)
    /\ dsp[1].pc = "raised"
    /\ \E f, g \in 1..dsp[1].n :
        /\ TaskState(1, f) = "FAILED"
        /\ TaskState(1, g) = "SUCCESS"


\* the number of prompts of call d whose processing has begun
Begun(d) ==
    Len(dsp[d].given)

\* C25: on the sequential path the prompts are processed in input order, no
\* more of them than the caller has requested items, and prompt i+1 only
\* after the result of prompt i was handed to the caller; what the caller
\* has received are the results of the first prompts, in order.
C25_SequentialIsLazy ==
    \A d \in Dispatches :
        ~Parallel(d) =>
            /\ Begun(d) <= dsp[d].requested
            /\ Begun(d) <= Len(dsp[d].received) + 1
            /\ \A i \in 1..dsp[d].n :
                dsp[d].inv[Batch(dsp[d].n)[i]] > 0 => i <= Begun(d)
            /\ \A i \in 1..Len(dsp[d].received) :
                dsp[d].received[i] = <<ScoredOutput(Batch(dsp[d].n)[i])>>

\* a LlamaCppLanguageModel with max_workers 2 has handed over two results of a
\* batch of three and has not begun the third prompt
C25_Witness ==
    /\ model.provider = "llama_cpp"
    /\ model.max_workers = 2
    /\ dsp[1].n = 3
    /\ Len(dsp[1].received) = 2
    /\ dsp[1].requested = 2
    /\ Begun(1) = 2


\* the place of task f in the order in which the tasks of call d finished
FinishedAt(d, f) ==
    CHOOSE k \in 1..Len(dsp[d].completed) : dsp[d].completed[k] = f

\* the tasks of call d that have failed so far
Failed(d) ==
    {f \in 1..Len(dsp[d].future_to_index) : TaskState(d, f) = "FAILED"}

\* C26 as stated: the failure a parallel call raises is that of the task
\* that reached FAILED earliest.
C26_RaisesEarliestFailure ==
    \A d \in Dispatches :
        (Parallel(d) /\ dsp[d].pc = "raised") =>
            \E f \in Failed(d) :
                /\ \A g \in Failed(d) : FinishedAt(d, f) <= FinishedAt(d, g)
                /\ dsp[d].error.origin = dsp[d].fut[f].prompt

\* C26: a parallel call raises exactly one failure, that of the first failed
\* task the collection loop is given by as_completed: every task collected
\* before it succeeded; if it finished after the collection began, it is the
\* earliest to fail among the tasks that finished after the collection began,
\* and the tasks that had finished before all succeeded.
C26_RaisesFirstCollectedFailure ==
    \A d \in Dispatches :
        (Parallel(d) /\ dsp[d].pc = "raised") =>
            \E f \in Failed(d) \cap dsp[d].collected :
                /\ dsp[d].error = ParallelError(dsp[d].fut[f].exc)
                /\ \A g \in dsp[d].collected \ {f} : TaskState(d, g) = "SUCCESS"
                /\ f \notin dsp[d].ac_finished =>
                    /\ dsp[d].ac_finished \subseteq dsp[d].collected
                    /\ \A g \in Failed(d) \ dsp[d].ac_finished :
                            FinishedAt(d, f) <= FinishedAt(d, g)

\* two tasks failed and the call raised the failure of the one that failed
\* later
C26_Witness ==
    /\ Parallel(1)
    /\ dsp[1].pc = "raised"
    /\ \E f, g \in Failed(1) :
        /\ FinishedAt(1, g) < FinishedAt(1, f)
        /\ dsp[1].error.origin = dsp[1].fut[f].prompt


\* the slots of the result buffer of call d that are filled
Filled(d) ==
    {i \in 1..Len(dsp[d].results) : dsp[d].results[i] # NoneResult}

\* C27: after every step of a parallel call the result buffer, once
\* allocated, has N slots, its filled slots are exactly those of the tasks
\* collected with a result, slot i holding the result of prompt i, and the
\* step has not changed a slot that was filled.
C27_BufferSlots ==
    [][\A d \in Dispatches :
        dsp'[d].results # <<>> =>
            /\ Len(dsp'[d].results) = dsp'[d].n
            /\ Filled(d)' =
                {dsp'[d].future_to_index[f] :
                    f \in {g \in dsp'[d].collected : dsp'[d].fut[g].ok}}
            /\ \A i \in Filled(d)' :
                dsp'[d].results[i] = ScoredOutput(Batch(dsp'[d].n)[i])
            /\ \A i \in Filled(d) : dsp'[d].results[i] = dsp[d].results[i]]_vars

\* the buffer of a batch of three holds the results of prompts 1 and 3, which
\* finished in the order 3, 1, while slot 2 is empty
C27_Witness ==
    /\ dsp[1].n = 3
    /\ Filled(1) = {1, 3}
    /\ dsp[1].completed = <<3, 1>>
    /\ dsp[1].pc = "collecting"


\* C28: on the parallel path _process_single_prompt is never invoked twice
\* for a prompt, and when the call has ended, with its last result or with a
\* failure, it has been invoked exactly once for each of the N prompts and
\* every task is in SUCCESS or FAILED: none was cancelled or skipped.
C28_EveryTaskRunsOnce ==
    \A d \in Dispatches :
        Parallel(d) =>
            /\ \A q \in PromptsOf(dsp[d].n) : dsp[d].inv[q] <= 1
            /\ Ended(d) =>
                /\ \A q \in PromptsOf(dsp[d].n) : dsp[d].inv[q] = 1
                /\ \A f \in 1..dsp[d].n : TaskState(d, f) \in {"SUCCESS", "FAILED"}
                /\ Len(dsp[d].completed) = dsp[d].n

\* with two workers for three prompts, the first task to finish failed after
\* the collection had begun and was the only one collected; the third task,
\* queued until then, still ran before the caller saw the failure
C28_Witness ==
    /\ Parallel(1)
    /\ dsp[1].pc = "raised"
    /\ dsp[1].n = 3
    /\ dsp[1].pool.size = 2
    /\ dsp[1].ac_finished = {}
    /\ dsp[1].collected = {1}
    /\ dsp[1].completed = <<1, 2, 3>>
    /\ dsp[1].inv["c"] = 1


\* prompt i of call d was processed and its backend call failed
FailedAt(d, i) ==
    /\ dsp[d].inv[Batch(dsp[d].n)[i]] > 0
    /\ dsp[d].plan[Batch(dsp[d].n)[i]] # <<>>

\* C29: on the sequential path, once the processing of prompt i has failed,
\* the call has raised the failure _process_single_prompt raised for prompt
\* i, the caller has received exactly the results of the prompts before i,
\* and no later prompt is processed, prompt i itself only once; a call
\* raises only in this way.
C29_SequentialFailure ==
    \A d \in Dispatches :
        ~Parallel(d) =>
            /\ \A i \in 1..dsp[d].n :
                FailedAt(d, i) =>
                    /\ dsp[d].pc = "raised"
                    /\ dsp[d].error.type = "InferenceRuntimeError"
                    /\ dsp[d].error.msg =
                        ApiErrorPrefix \o dsp[d].plan[Batch(dsp[d].n)[i]][1].msg
                    /\ dsp[d].error.origin = Batch(dsp[d].n)[i]
                    /\ dsp[d].inv[Batch(dsp[d].n)[i]] = 1
                    /\ dsp[d].received =
                        [j \in 1..(i - 1) |-> <<ScoredOutput(Batch(dsp[d].n)[j])>>]
                    /\ \A j \in (i + 1)..dsp[d].n : dsp[d].inv[Batch(dsp[d].n)[j]] = 0
            /\ dsp[d].pc = "raised" => \E i \in 1..dsp[d].n : FailedAt(d, i)

\* a LlamaCppLanguageModel failed at the second of three prompts
C29_Witness ==
    /\ model.provider = "llama_cpp"
    /\ dsp[1].n = 3
    /\ dsp[1].pc = "raised"
    /\ dsp[1].error.origin = "b"
    /\ dsp[1].error.msg = LlamaCppPrefix \o MsgTooMany
    /\ Len(dsp[1].received) = 1
    /\ dsp[1].plan["c"] # <<>>
    /\ dsp[1].inv["c"] = 0


\* C30: when the collection loop of a parallel call has ended without
\* raising, every slot of the buffer is filled; the 'Failed to process one or
\* more prompts' error is never pending nor raised, and a call that got as
\* far as emitting ends only after handing over all N results.
C30_NoEmptySlotAtEmission ==
    \A d \in Dispatches :
        /\ dsp[d].pc = "emitting" => Filled(d) = 1..dsp[d].n
        /\ dsp[d].pending.msg # MsgFailedPrompts
        /\ dsp[d].error.msg # MsgFailedPrompts
        /\ (Parallel(d) /\ Ended(d) /\ dsp[d].collected = 1..dsp[d].n
                /\ \A f \in 1..dsp[d].n : dsp[d].fut[f].ok) =>
            /\ dsp[d].pc = "done"
            /\ Len(dsp[d].received) = dsp[d].n

\* the collection of a batch of three ended without raising and the second
\* result is about to be emitted
C30_Witness ==
    /\ dsp[1].pc = "emitting"
    /\ dsp[1].n = 3
    /\ dsp[1].k = 2
    /\ Len(dsp[1].received) = 1
    /\ dsp[1].want


\* C31: with max_retries >= 0 no wrapper call, of either wrapper, is ever at
\* the statements after its loop, and none raises the RuntimeError those
\* statements hold.
C31_PostLoopUnreachable ==
    rcfg.max_retries >= 0 =>
        \A c \in Calls :
            /\ rc[c].pc # "post_loop"
            /\ rc[c].result.exc.msg \notin {MsgRetryLogic, MsgChunkRetryLogic}

\* a call with max_retries = 2 failed transiently three times and re-raised
\* inside the loop, at its last iteration
C31_Witness ==
    /\ rcfg.max_retries = 2
    /\ rc[1].pc = "raised"
    /\ Len(rc[1].outs) = 3
    /\ rc[1].attempt = 2
    /\ rc[1].result.exc = rc[1].outs[3].exc

\* C32: in a wrapper call with max_retries >= 0 there have been as many
\* sleeps as invocations while the call is in its loop (each sleep follows an
\* invocation and is followed by one), and one sleep fewer than invocations,
\* at most max_retries, once the call has ended.
C32_SleepsAlternate ==
    rcfg.max_retries >= 0 =>
        \A c \in Calls :
            /\ rc[c].pc \in {"try", "sleeping"} =>
                /\ Len(rc[c].sleeps) = Len(rc[c].outs)
                /\ rc[c].attempt = Len(rc[c].sleeps) - (IF rc[c].pc = "sleeping" THEN 1 ELSE 0)
            /\ rc[c].pc = "direct" => rc[c].sleeps = <<>> /\ rc[c].outs = <<>>
            /\ Terminated(c) =>
                /\ Len(rc[c].sleeps) = Len(rc[c].outs) - 1
                /\ Len(rc[c].sleeps) <= rcfg.max_retries

\* a call with max_retries = 2 returned at its third invocation, after two sleeps
C32_Witness ==
    /\ rcfg.max_retries = 2
    /\ rc[1].pc = "returned"
    /\ Len(rc[1].outs) = 3
    /\ Len(rc[1].sleeps) = 2


\* the InferenceRuntimeError that _process_single_prompt raises when the
\* backend call fails with the error the caller holds
WrappedByProvider ==
    ProcessSinglePrompt("a", <<clf.error>>, 1).exc

\* C33: the error _process_single_prompt raises for an underlying failure e,
\* and the error the parallel path raises for that one, are classified by
\* is_transient_error exactly as e itself was.
C33_WrappingKeepsClassification ==
    \A k \in 1..Len(clf.results) :
        /\ is_transient_error(WrappedByProvider) = clf.results[k]
        /\ is_transient_error(ParallelError(WrappedByProvider)) = clf.results[k]


\* C34: whatever other calls of the same decorated function do meanwhile, a
\* wrapper call's attempt counter counts its own sleeps, its delay is the one
\* its own attempt gives, starting from initial_delay at attempt 0, each of
\* its sleeps has the base of its own position, and a call that re-raised a
\* transient error had made max_retries + 1 invocations of its own.
C34_RetryStatePrivate ==
    \A c \in Calls :
        /\ rc[c].pc \in {"try", "sleeping"} =>
            /\ rc[c].attempt = Len(rc[c].outs) - (IF rc[c].pc = "sleeping" THEN 1 ELSE 0)
            /\ rc[c].delay = BaseDelay(rc[c].attempt + 1)
        /\ \A j \in 1..Len(rc[c].sleeps) :
            /\ BaseDelay(j) <= rc[c].sleeps[j]
            /\ 10 * rc[c].sleeps[j] < 11 * BaseDelay(j)
        /\ (RetryEnabled /\ rc[c].pc = "raised" /\ TransientRaise(LastOut(c))) =>
            Len(rc[c].outs) = rcfg.max_retries + 1

\* call 1 is at its third attempt with the capped delay while call 2 is at
\* its first with the initial delay
C34_Witness ==
    /\ rc[1].pc = "try"
    /\ rc[1].attempt = 2
    /\ rc[1].delay = 200
    /\ rc[2].pc = "try"
    /\ rc[2].attempt = 0
    /\ rc[2].delay = 100


\* C36: a call through retry_chunk_processing(enabled=False) and a call
\* through a retry wrapper with max_retries=0 around the same function make
\* the same single invocation, never sleep, and end with the same value or
\* the same exception.
C36_DisabledIsZeroRetries ==
    /\ rc[1].outs = rc[2].outs
    /\ Len(rc[1].outs) <= 1
    /\ rc[1].sleeps = <<>>
    /\ rc[2].sleeps = <<>>
    /\ rc[1].result = rc[2].result
    /\ Terminated(1) <=> Terminated(2)
    /\ Terminated(1) <=> Len(rc[1].outs) = 1

\* the disabled wrapper had max_retries=2, the function raised a transient
\* error, and both calls raised it after that one invocation
C36_Witness ==
    /\ rcfg.max_retries = 2
    /\ rc[1].pc = "raised"
    /\ rc[2].pc = "raised"
    /\ TransientRaise(LastOut(1))
    /\ rc[2].result.exc = rc[1].outs[1].exc


\* C38: an infer call of a LlamaCppLanguageModel, whatever its max_workers,
\* has no pool and no futures, has at most one prompt in flight, which is the
\* one after those already handed over, has called the backend once for each
\* earlier prompt and not at all for a later one, hands over one one-element
\* list per prompt in input order, and ends normally only after all N.
C38_LlamaCppIgnoresMaxWorkers ==
    model.provider = "llama_cpp" =>
        \A d \in Dispatches :
            /\ dsp[d].pool = [state |-> "none", size |-> 0]
            /\ dsp[d].fut = <<>>
            /\ dsp[d].pc \in {"unused", "created", "seq", "seq_running", "done", "raised"}
            /\ Cardinality(RunningTasks(d)) <= 1
            /\ dsp[d].pc = "seq_running" => dsp[d].k = Len(dsp[d].received) + 1
            /\ \A i \in 1..dsp[d].n :
                /\ i <= Len(dsp[d].received) =>
                    /\ dsp[d].received[i] = <<ScoredOutput(Batch(dsp[d].n)[i])>>
                    /\ dsp[d].inv[Batch(dsp[d].n)[i]] = 1
                /\ i > Len(dsp[d].received) + 1 => dsp[d].inv[Batch(dsp[d].n)[i]] = 0
            /\ dsp[d].pc = "done" => Len(dsp[d].received) = dsp[d].n

\* a LlamaCppLanguageModel with max_workers 3 is processing the second of
\* three prompts, the third untouched
C38_Witness ==
    /\ model.provider = "llama_cpp"
    /\ model.max_workers = 3
    /\ dsp[1].n = 3
    /\ dsp[1].pc = "seq_running"
    /\ RunningTasks(1) = {2}
    /\ Len(dsp[1].received) = 1


\* C37: when every call of _process_single_prompt terminates and the caller
\* keeps requesting items, an infer call that was made eventually ends, by
\* exhaustion or by raising, on the sequential and on the parallel path.
C37_DispatchTerminates ==
    (dsp[1].pc # "unused") ~> Ended(1)

\* a parallel call over MaxLiveBatch prompts ended by raising after its pool
\* had run every task, one of them after the failure was detected
C37_Witness ==
    /\ Parallel(1)
    /\ dsp[1].pc = "raised"
    /\ dsp[1].n = MaxLiveBatch
    /\ Len(dsp[1].completed) = MaxLiveBatch
    /\ Cardinality(dsp[1].collected) = 1


\* C35: of two infer calls running at once on one instance, each has a pool
\* of its own size min(max_workers, N) and at most that many tasks running,
\* its own index map, a buffer that holds results of its own prompts only at
\* their own positions, hands over the results of its own prompts in its own
\* input order, raises only for a failure of one of its own prompts, and
\* hands over all N when none of its own prompts fails.
C35_ConcurrentCallsShareNothing ==
    \A d \in Dispatches :
        Parallel(d) =>
            /\ dsp[d].pool.size = Min(model.max_workers, dsp[d].n)
            /\ Cardinality(RunningTasks(d)) <= Min(model.max_workers, dsp[d].n)
            /\ \A f \in 1..Len(dsp[d].future_to_index) :
                /\ dsp[d].future_to_index[f] = f
                /\ dsp[d].fut[f].prompt = dsp[d].batch[f]
            /\ Len(dsp[d].results) \in {0, dsp[d].n}
            /\ \A i \in 1..Len(dsp[d].results) :
                dsp[d].results[i] \in {NoneResult, ScoredOutput(dsp[d].batch[i])}
            /\ Len(dsp[d].received) <= dsp[d].n
            /\ \A i \in 1..Len(dsp[d].received) :
                dsp[d].received[i] = <<ScoredOutput(dsp[d].batch[i])>>
            /\ dsp[d].pc = "raised" =>
                /\ dsp[d].error.origin \in DOMAIN dsp[d].plan
                /\ dsp[d].plan[dsp[d].error.origin] # <<>>
            /\ (Ended(d) /\ AllUnitsSucceed(d)) =>
                /\ dsp[d].pc = "done"
                /\ Len(dsp[d].received) = dsp[d].n

\* both calls have two tasks running at once, four on an instance whose
\* max_workers is 2, while the third task of call 1 is queued
C35_Witness ==
    /\ Cardinality(RunningTasks(1)) = 2
    /\ Cardinality(RunningTasks(2)) = 2
    /\ dsp[1].queue = <<3>>
    /\ dsp[1].batch # dsp[2].batch

=============================================================================
